---- MODULE Spec2Model ----
(***************************************************************************)
(* A model of the runtime type validation of muspellheim-shared            *)
(* (src/lib/stop-watch.js: ensureType, ensureItemType, checkType, getType, *)
(* describe, Enum, Color).                                                 *)
(*                                                                         *)
(* JavaScript strings are sequences of one-character strings, so that the  *)
(* code's string operations (name[0], toLowerCase, startsWith, template    *)
(* literals) are computed and not assumed.  JavaScript values are records  *)
(* with a field k; plain objects and arrays live in a heap and are named   *)
(* by reference, so that identity, aliasing and in-place writes are part   *)
(* of the model.                                                           *)
(***************************************************************************)
EXTENDS Integers, Sequences, FiniteSets, TLC

\* The longest union descriptor that is enumerated.
MaxUnion == 2
\* How many validation calls one behaviour makes.
MaxCalls == 2
\* The longest list of arguments; the lists of types are one shorter at most
MaxArgs == 3
\* The longest array of types that is described
MaxDescribed == 3
\* The most subscriptions of a store at a time, and the most dispatches
MaxSubscriptions == 3
MaxDispatches == 2
\* The longest list of configured responses, and the most calls of next()
MaxResponses == 2
MaxNextCalls == 3
\* How many events are dispatched and tracker methods called in a behaviour
MaxEvents == 4
\* How many times send() is called on a LongPolling
MaxSends == 2
\* How many requests the clients of a LongPolling make
MaxRequests == 3
\* How many times simulateTaskExecution is called on a Timer
MaxTicks == 2

(***************************************************************************)
(* String.prototype                                                        *)
(***************************************************************************)
UpperLetters == <<"A","B","C","D","E","F","G","H","I","J","K","L","M","N","O","P","Q","R","S","T","U","V","W","X","Y","Z">>
LowerLetters == <<"a","b","c","d","e","f","g","h","i","j","k","l","m","n","o","p","q","r","s","t","u","v","w","x","y","z">>
Digits == <<"0","1","2","3","4","5","6","7","8","9">>

\* The first position of c in s, 0 when there is none.
IndexOf(s, c) ==
  IF \E i \in 1..Len(s) : s[i] = c
  THEN CHOOSE i \in 1..Len(s) : s[i] = c /\ \A j \in 1..(i - 1) : s[j] # c
  ELSE 0

toLowerCase(s) ==
  [i \in 1..Len(s) |->
     LET p == IndexOf(UpperLetters, s[i]) IN IF p = 0 THEN s[i] ELSE LowerLetters[p]]

toUpperCase(s) ==
  [i \in 1..Len(s) |->
     LET p == IndexOf(LowerLetters, s[i]) IN IF p = 0 THEN s[i] ELSE UpperLetters[p]]

startsWith(s, prefix) ==
  Len(s) >= Len(prefix) /\ SubSeq(s, 1, Len(prefix)) = prefix

includes(s, c) == \E i \in 1..Len(s) : s[i] = c

RECURSIVE NatToString(_)
NatToString(n) ==
  IF n < 10 THEN <<Digits[n + 1]>>
  ELSE NatToString(n \div 10) \o <<Digits[(n % 10) + 1]>>

\* Array.prototype.join over strings
RECURSIVE join(_, _)
join(strings, sep) ==
  IF Len(strings) = 0 THEN <<>>
  ELSE IF Len(strings) = 1 THEN strings[1]
  ELSE strings[1] \o sep \o join(Tail(strings), sep)

(***************************************************************************)
(* JavaScript values                                                       *)
(***************************************************************************)
Undefined == [k |-> "undefined"]
Null == [k |-> "null"]
Bool(b) == [k |-> "boolean", b |-> b]
Num(n) == [k |-> "number", n |-> n, nan |-> FALSE]
NaNValue == [k |-> "number", n |-> 0, nan |-> TRUE]
BigIntV(n) == [k |-> "bigint", n |-> n]
Str(s) == [k |-> "string", s |-> s]
SymbolV(d) == [k |-> "symbol", desc |-> d]
FunctionV(src) == [k |-> "function", src |-> src]
\* a plain object or an array: a reference into the heap
Ref(a) == [k |-> "ref", a |-> a]
\* instances of classes: a Date holds its time value, a Color its #value (both
\* numbers, nan marks the number NaN), an enum constant its name and ordinal
DateV(time) == [k |-> "Date", num |-> time, nan |-> FALSE]
InvalidDate == [k |-> "Date", num |-> 0, nan |-> TRUE]
ColorV(rgb) == [k |-> "Color", num |-> rgb, nan |-> FALSE]
InvalidColor == [k |-> "Color", num |-> 0, nan |-> TRUE]
EnumV(cls, name, ordinal) == [k |-> "enum", cls |-> cls, name |-> name, ordinal |-> ordinal]

\* heap cells
ObjectCell(props) == [kind |-> "object", props |-> props]
ArrayCell(items) == [kind |-> "array", items |-> items]
Prop(key, val) == [key |-> key, val |-> val]

HasKey(cell, key) == \E i \in 1..Len(cell.props) : cell.props[i].key = key

\* value[key] of a plain object: undefined when the object has no such property
GetProp(cell, key) ==
  IF HasKey(cell, key)
  THEN cell.props[CHOOSE i \in 1..Len(cell.props) : cell.props[i].key = key].val
  ELSE Undefined

\* value[key] = val: an existing property keeps its place, a new one is appended
SetProp(cell, key, val) ==
  IF HasKey(cell, key)
  THEN [cell EXCEPT !.props =
          [i \in 1..Len(cell.props) |->
             IF cell.props[i].key = key THEN Prop(key, val) ELSE cell.props[i]]]
  ELSE [cell EXCEPT !.props = Append(cell.props, Prop(key, val))]

(***************************************************************************)
(* Types: what getType returns and what a caller passes as expectedType    *)
(***************************************************************************)
TUndefined == [d |-> "undefined"]
TNull == [d |-> "null"]
TBoolean == [d |-> "Boolean"]
TNumber == [d |-> "Number"]
TBigInt == [d |-> "BigInt"]
TString == [d |-> "String"]
TSymbol == [d |-> "Symbol"]
TFunction == [d |-> "Function"]
TObject == [d |-> "Object"]
TArray == [d |-> "Array"]
TNaN == [d |-> "NaN"]
\* a class: its name, the name of Object.getPrototypeOf(class), its static constants
Class(name, proto, constants) ==
  [d |-> "class", name |-> name, proto |-> proto, constants |-> constants]
\* an array of types
Union(types) == [d |-> "union", types |-> types]
\* a string, a number or a boolean in the place of a type: d is its typeof
Literal(value) == [d |-> value.k, value |-> value]
\* a plain object of types, its properties in the order of for-in
Struct(fields) == [d |-> "struct", fields |-> fields]
Field(key, type) == [key |-> key, type |-> type]

\* === of two types: NaN is not equal to itself
StrictEquals(a, b) == a = b /\ a # TNaN

TypeofNoArray(v) ==
  CASE v.k = "undefined" -> TUndefined
    [] v.k = "boolean" -> TBoolean
    [] v.k = "number" -> TNumber
    [] v.k = "bigint" -> TBigInt
    [] v.k = "string" -> TString
    [] v.k = "symbol" -> TSymbol
    [] v.k = "function" -> TFunction
    [] OTHER -> TObject

\* getType without the test for NaN
getTypeWithoutNaN(heap, v) ==
  IF v.k = "null" THEN TNull
  ELSE IF v.k = "ref" /\ heap[v.a].kind = "array" THEN TArray
  ELSE TypeofNoArray(v)

getType(heap, v) ==
  IF v.k = "null" THEN TNull
  ELSE IF v.k = "ref" /\ heap[v.a].kind = "array" THEN TArray
  ELSE IF v.k = "number" /\ v.nan THEN TNaN
  ELSE TypeofNoArray(v)

(***************************************************************************)
(* Conversions of the language that the validation code relies on          *)
(***************************************************************************)
HexDigits == <<"0","1","2","3","4","5","6","7","8","9","a","b","c","d","e","f">>
MillisPerDay == 24 * 60 * 60 * 1000
WeekDays == << <<"T","h","u">>, <<"F","r","i">>, <<"S","a","t">>, <<"S","u","n">>,
               <<"M","o","n">>, <<"T","u","e">>, <<"W","e","d">> >>

RECURSIVE NatToHex(_)
NatToHex(n) ==
  IF n < 16 THEN <<HexDigits[n + 1]>>
  ELSE NatToHex(n \div 16) \o <<HexDigits[(n % 16) + 1]>>

RECURSIVE padStart(_, _, _)
padStart(s, length, fill) ==
  IF Len(s) >= length THEN s ELSE padStart(<<fill>> \o s, length, fill)

IntToString(n) == IF n < 0 THEN <<"-">> \o NatToString(-n) ELSE NatToString(n)

IsDigits(s) == Len(s) > 0 /\ \A i \in 1..Len(s) : includes(Digits, s[i])

RECURSIVE DigitsToNat(_)
DigitsToNat(s) ==
  IF Len(s) = 0 THEN 0
  ELSE 10 * DigitsToNat(SubSeq(s, 1, Len(s) - 1)) + (IndexOf(Digits, s[Len(s)]) - 1)

\* The number a string converts to: the empty string is 0, decimal digits are
\* their value, anything else in the strings of this model is NaN.
StringToNumber(s) ==
  IF Len(s) = 0 THEN Num(0)
  ELSE IF IsDigits(s) THEN Num(DigitsToNat(s))
  ELSE NaNValue

\* parseInt(s, 16): an optional sign, an optional 0x, then the longest run of
\* hexadecimal digits; NaN when that run is empty.
RECURSIVE HexPrefixValue(_, _)
HexPrefixValue(s, acc) ==
  IF Len(s) = 0 \/ ~includes(HexDigits, toLowerCase(<<s[1]>>)[1]) THEN acc
  ELSE HexPrefixValue(Tail(s), 16 * acc + (IndexOf(HexDigits, toLowerCase(<<s[1]>>)[1]) - 1))

parseInt16(s) ==
  LET negative == Len(s) > 0 /\ s[1] = "-"
      unsigned == IF Len(s) > 0 /\ s[1] \in {"-", "+"} THEN Tail(s) ELSE s
      body == IF startsWith(toLowerCase(unsigned), <<"0","x">>)
              THEN SubSeq(unsigned, 3, Len(unsigned)) ELSE unsigned
  IN IF Len(body) = 0 \/ ~includes(HexDigits, toLowerCase(<<body[1]>>)[1])
     THEN NaNValue
     ELSE Num(IF negative THEN -HexPrefixValue(body, 0) ELSE HexPrefixValue(body, 0))

\* Date.parse for the date-only ISO form YYYY-MM-DD.  The model keeps to the
\* days of January 1970 (a time value fits the integers of the checker);
\* every other string of the model is not a date.
DateParse(s) ==
  IF /\ Len(s) = 10
     /\ SubSeq(s, 1, 8) = <<"1","9","7","0","-","0","1","-">>
     /\ IsDigits(SubSeq(s, 9, 10))
     /\ DigitsToNat(SubSeq(s, 9, 10)) \in 1..24
  THEN Num((DigitsToNat(SubSeq(s, 9, 10)) - 1) * MillisPerDay)
  ELSE NaNValue

\* Date.prototype.toString, shortened to week day, month, day and year
DateToString(v) ==
  IF v.nan THEN <<"I","n","v","a","l","i","d"," ","D","a","t","e">>
  ELSE LET days == v.num \div MillisPerDay IN
       WeekDays[(days % 7) + 1] \o <<" ","J","a","n"," ">>
         \o padStart(NatToString(days + 1), 2, "0") \o <<" ","1","9","7","0">>

\* Color.prototype.toString
ColorToString(v) ==
  IF v.nan THEN <<"I","n","v","a","l","i","d"," ","C","o","l","o","r">>
  ELSE padStart(NatToHex(v.num), 6, "0")

\* An enum constant without the toString of Enum: that of Object
EnumToStringOfObject(v) == <<"[","o","b","j","e","c","t"," ","O","b","j","e","c","t","]">>

\* Enum.prototype.toString
EnumToString(v) == v.name

\* String(value)
RECURSIVE ToStringJS(_, _)
ToStringJS(heap, v) ==
  CASE v.k = "undefined" -> <<"u","n","d","e","f","i","n","e","d">>
    [] v.k = "null" -> <<"n","u","l","l">>
    [] v.k = "boolean" -> IF v.b THEN <<"t","r","u","e">> ELSE <<"f","a","l","s","e">>
    [] v.k = "number" -> IF v.nan THEN <<"N","a","N">> ELSE IntToString(v.n)
    [] v.k = "bigint" -> IntToString(v.n)
    [] v.k = "string" -> v.s
    [] v.k = "symbol" -> <<"S","y","m","b","o","l","(">> \o v.desc \o <<")">>
    [] v.k = "function" -> v.src
    [] v.k = "Date" -> DateToString(v)
    [] v.k = "Color" -> ColorToString(v)
    [] v.k = "enum" -> EnumToString(v)
    [] v.k = "ref" ->
         IF heap[v.a].kind = "array"
         THEN join([i \in 1..Len(heap[v.a].items) |->
                      IF heap[v.a].items[i].k \in {"undefined", "null"} THEN <<>>
                      ELSE ToStringJS(heap, heap[v.a].items[i])], <<",">>)
         ELSE <<"[","o","b","j","e","c","t"," ","O","b","j","e","c","t","]">>

\* ToPrimitive(value, hint): valueOf before toString, except for a Date without
\* the hint number
ToPrimitive(heap, v, hint) ==
  CASE v.k = "Date" ->
         IF hint = "number" THEN (IF v.nan THEN NaNValue ELSE Num(v.num))
         ELSE Str(DateToString(v))
    [] v.k = "Color" -> IF v.nan THEN NaNValue ELSE Num(v.num)
    [] v.k = "enum" -> Num(v.ordinal)
    [] v.k \in {"ref", "function"} -> Str(ToStringJS(heap, v))
    [] OTHER -> v

\* ToNumber of a primitive: [thrown, value]
ToNumber(p) ==
  CASE p.k = "undefined" -> [thrown |-> FALSE, value |-> NaNValue]
    [] p.k = "null" -> [thrown |-> FALSE, value |-> Num(0)]
    [] p.k = "boolean" -> [thrown |-> FALSE, value |-> Num(IF p.b THEN 1 ELSE 0)]
    [] p.k = "number" -> [thrown |-> FALSE, value |-> p]
    [] p.k = "string" -> [thrown |-> FALSE, value |-> StringToNumber(p.s)]
    [] OTHER -> [thrown |-> TRUE, value |-> NaNValue]  \* bigint, symbol: TypeError

\* Number(value): a bigint converts, a symbol throws
NumberJS(heap, v) ==
  IF v.k = "bigint" THEN [thrown |-> FALSE, value |-> Num(v.n)]
  ELSE ToNumber(ToPrimitive(heap, v, "number"))

\* new Date(value): [thrown, value]
NewDate(heap, v) ==
  IF v.k = "Date" THEN [thrown |-> FALSE, value |-> v]
  ELSE LET p == ToPrimitive(heap, v, "default")
           t == IF p.k = "string" THEN [thrown |-> FALSE, value |-> DateParse(p.s)]
                ELSE ToNumber(p)
       IN [thrown |-> t.thrown,
           value |-> IF t.value.nan THEN InvalidDate ELSE DateV(t.value.n)]

\* new Color(red) with green and blue undefined: [thrown, value]
NewColor(heap, red) ==
  LET t == IF red.k = "string" THEN [thrown |-> FALSE, value |-> parseInt16(red.s)]
           ELSE NumberJS(heap, red)
  IN [thrown |-> t.thrown,
      value |-> IF t.value.nan THEN InvalidColor ELSE ColorV(t.value.n)]

\* Date.prototype.toISOString within January 1970
DateToISOString(v) ==
  LET days == v.num \div MillisPerDay
      rest == v.num % MillisPerDay
      two(n) == padStart(NatToString(n), 2, "0")
  IN <<"1","9","7","0","-","0","1","-">> \o two(days + 1) \o <<"T">>
       \o two(rest \div 3600000) \o <<":">> \o two((rest \div 60000) % 60) \o <<":">>
       \o two((rest \div 1000) % 60) \o <<".">> \o padStart(NatToString(rest % 1000), 3, "0")
       \o <<"Z">>

RECURSIVE QuoteChars(_)
QuoteChars(s) ==
  IF Len(s) = 0 THEN <<>>
  ELSE (IF s[1] \in {"\"", "\\"} THEN <<"\\", s[1]>> ELSE <<s[1]>>) \o QuoteChars(Tail(s))

Quote(s) == <<"\"">> \o QuoteChars(s) \o <<"\"">>

\* JSON.stringify(value): [thrown, defined, s].  The result is undefined for
\* undefined, a function and a symbol; a bigint and a circular structure throw
\* a TypeError.  seen holds the objects on the path from the root.
RECURSIVE JSONStringify(_, _, _)
JSONStringify(heap, v, seen) ==
  LET text(s) == [thrown |-> FALSE, defined |-> TRUE, s |-> s]
      nothing == [thrown |-> FALSE, defined |-> FALSE, s |-> <<>>]
      throws == [thrown |-> TRUE, defined |-> FALSE, s |-> <<>>]
  IN
  CASE v.k \in {"undefined", "function", "symbol"} -> nothing
    [] v.k = "null" -> text(<<"n","u","l","l">>)
    [] v.k = "boolean" -> text(ToStringJS(heap, v))
    [] v.k = "number" -> text(IF v.nan THEN <<"n","u","l","l">> ELSE IntToString(v.n))
    [] v.k = "bigint" -> throws
    [] v.k = "string" -> text(Quote(v.s))
    [] v.k = "Date" -> text(IF v.nan THEN <<"n","u","l","l">> ELSE Quote(DateToISOString(v)))
    [] v.k = "Color" -> text(<<"{","}">>)
    [] v.k = "enum" -> text(Quote(v.name))
    [] v.k = "ref" ->
         IF v.a \in seen THEN throws
         ELSE IF heap[v.a].kind = "array"
         THEN LET items == heap[v.a].items
                  parts == [i \in 1..Len(items) |-> JSONStringify(heap, items[i], seen \cup {v.a})]
              IN IF \E i \in 1..Len(items) : parts[i].thrown THEN throws
                 ELSE text(<<"[">>
                        \o join([i \in 1..Len(items) |->
                                   IF parts[i].defined THEN parts[i].s ELSE <<"n","u","l","l">>],
                                <<",">>)
                        \o <<"]">>)
         ELSE LET props == heap[v.a].props
                  parts == [i \in 1..Len(props) |-> JSONStringify(heap, props[i].val, seen \cup {v.a})]
                  kept == SelectSeq([i \in 1..Len(props) |-> i], LAMBDA i : parts[i].defined)
              IN IF \E i \in 1..Len(props) : parts[i].thrown THEN throws
                 ELSE text(<<"{">>
                        \o join([j \in 1..Len(kept) |->
                                   Quote(props[kept[j]].key) \o <<":">> \o parts[kept[j]].s],
                                <<",">>)
                        \o <<"}">>)

(***************************************************************************)
(* describe                                                                *)
(***************************************************************************)
\* The first letter compared as it is written
withArticleCaseSensitive(name) ==
  IF includes(<<"a","e","i","o","u">>, name[1])
  THEN <<"a","n"," ">> \o name
  ELSE <<"a"," ">> \o name

\* name = 'aeiou'.includes(name[0].toLowerCase()) ? `an ${name}` : `a ${name}`
withArticle(name) ==
  IF includes(<<"a","e","i","o","u">>, toLowerCase(<<name[1]>>)[1])
  THEN <<"a","n"," ">> \o name
  ELSE <<"a"," ">> \o name

\* The descriptions joined with " or " whatever their number
joinTypesWithOr(types) == join(types, <<" ","o","r"," ">>)

\* The joining of the descriptions of the types of an array
joinTypes(types) ==
  IF Len(types) <= 2 THEN join(types, <<" ","o","r"," ">>)
  ELSE join(SubSeq(types, 1, Len(types) - 1), <<","," ">>)
         \o <<","," ","o","r"," ">> \o types[Len(types)]

\* type.name of a type that is none of the built-in ones: [defined, s]
NameOfType(type) ==
  IF type.d = "class" THEN [defined |-> TRUE, s |-> type.name]
  ELSE [defined |-> FALSE, s |-> <<>>]

\* describe(type, { articles }): [thrown, s].  Reading name[0] of a name that is
\* undefined or empty throws a TypeError.
RECURSIVE describe(_, _)
describe(type, articles) ==
  LET text(s) == [thrown |-> FALSE, s |-> s]
      noun(s) == text(IF articles THEN withArticle(s) ELSE s)
  IN
  CASE type.d = "union" ->
         LET types == [i \in 1..Len(type.types) |-> describe(type.types[i], articles)]
         IN IF \E i \in 1..Len(types) : types[i].thrown
            THEN [thrown |-> TRUE, s |-> <<>>]
            ELSE text(joinTypes([i \in 1..Len(types) |-> types[i].s]))
    [] type.d = "NaN" -> text(<<"N","a","N">>)
    [] type.d = "null" -> text(<<"n","u","l","l">>)
    [] type.d = "undefined" -> text(<<"u","n","d","e","f","i","n","e","d">>)
    [] type.d = "Array" -> noun(<<"a","r","r","a","y">>)
    [] type.d = "Boolean" -> noun(<<"b","o","o","l","e","a","n">>)
    [] type.d = "Number" -> noun(<<"n","u","m","b","e","r">>)
    [] type.d = "BigInt" -> noun(<<"b","i","g","i","n","t">>)
    [] type.d = "String" -> noun(<<"s","t","r","i","n","g">>)
    [] type.d = "Symbol" -> noun(<<"s","y","m","b","o","l">>)
    [] type.d = "Function" -> noun(<<"f","u","n","c","t","i","o","n">>)
    [] type.d = "Object" -> noun(<<"o","b","j","e","c","t">>)
    [] OTHER ->
         LET name == NameOfType(type) IN
         IF articles
         THEN IF name.defined /\ Len(name.s) > 0 THEN text(withArticle(name.s))
              ELSE [thrown |-> TRUE, s |-> <<>>]
         ELSE text(IF name.defined THEN name.s ELSE <<"u","n","d","e","f","i","n","e","d">>)

(***************************************************************************)
(* Enum                                                                    *)
(***************************************************************************)
\* Enum.valueOf(name): [thrown, value], the first constant with that name
valueOf(class, name) ==
  LET values == class.constants
      found == {i \in 1..Len(values) : values[i].name = name}
  IN IF found = {} THEN [thrown |-> TRUE, value |-> Undefined]
     ELSE [thrown |-> FALSE,
           value |-> values[CHOOSE i \in found : \A j \in found : i <= j]]

(***************************************************************************)
(* checkType                                                               *)
(***************************************************************************)
\* What a check did, in order: the fields it read and wrote, the instances it
\* constructed.
ReadEvent(value, key) == [ev |-> "read", of |-> value, key |-> key]
WriteEvent(value, key) == [ev |-> "write", of |-> value, key |-> key]
NewEvent(class) == [ev |-> "new", of |-> Undefined, key |-> class.name]

\* The result of checkType: { value } or { error }, or an exception thrown out
\* of it; with the heap it leaves and what it did.
ValueResult(value, heap, log) ==
  [st |-> "value", value |-> value, error |-> <<>>, heap |-> heap, log |-> log]
ErrorResult(error, heap, log) ==
  [st |-> "error", value |-> Undefined, error |-> error, heap |-> heap, log |-> log]
\* an Error that is no ValidationError: a TypeError of the language, or the
\* Error of ensureUnreachable
ThrownResult(kind, message, heap, log) ==
  [st |-> kind, value |-> Undefined, error |-> message, heap |-> heap, log |-> log]

\* The condition with Object left out of it
IsBuiltInTypeWithoutObject(expectedType) ==
  expectedType \in {TUndefined, TNull, TBoolean, TNumber, TBigInt, TString,
                    TSymbol, TFunction, TArray}

IsBuiltInType(expectedType) ==
  expectedType \in {TUndefined, TNull, TBoolean, TNumber, TBigInt, TString,
                    TSymbol, TFunction, TObject, TArray}

\* The test for an enum class that finds none
PrototypeNameOfNone(expectedType) == <<>>

\* Object.getPrototypeOf(expectedType).name
PrototypeName(expectedType) ==
  IF expectedType.d = "class" THEN expectedType.proto ELSE <<>>

\* typeof expectedType
TypeofType(expectedType) ==
  CASE expectedType.d = "class" -> "function"
    [] expectedType.d \in {"union", "struct"} -> "object"
    [] OTHER -> expectedType.d

\* value instanceof expectedType
InstanceOf(value, expectedType) ==
  /\ value.k \in {"Date", "Color", "enum"}
  /\ expectedType.name =
       (CASE value.k = "Date" -> <<"D","a","t","e">>
          [] value.k = "Color" -> <<"C","o","l","o","r">>
          [] OTHER -> value.cls)

\* new expectedType(value): [thrown, value]
New(expectedType, heap, value) ==
  IF expectedType.name = <<"C","o","l","o","r">> THEN NewColor(heap, value)
  ELSE NewDate(heap, value)

\* The comparison without toLowerCase
IsInvalidCaseSensitive(heap, convertedValue) ==
  startsWith(ToStringJS(heap, convertedValue), <<"i","n","v","a","l","i","d">>)

\* String(convertedValue).toLowerCase().startsWith('invalid')
IsInvalid(heap, convertedValue) ==
  startsWith(toLowerCase(ToStringJS(heap, convertedValue)), <<"i","n","v","a","l","i","d">>)

\* `The ${name} must be ${describe(expectedType, { articles: true })}, but it
\* was ${describe(valueType, { articles: true })}.`
MustBeError(name, expectedType, valueType, heap, log) ==
  LET expected == describe(expectedType, TRUE)
      actual == describe(valueType, TRUE)
  IN IF expected.thrown \/ actual.thrown
     THEN ThrownResult("TypeError", <<>>, heap, log)
     ELSE ErrorResult(<<"T","h","e"," ">> \o name \o <<" ","m","u","s","t"," ","b","e"," ">>
                        \o expected.s \o <<","," ","b","u","t"," ","i","t"," ","w","a","s"," ">>
                        \o actual.s \o <<".">>,
                      heap, log)

\* The error of a constructed instance that is invalid
MustBeValidError(name, expectedType, valueType, value, heap, log) ==
  LET json == JSONStringify(heap, value, {})
      head == <<"T","h","e"," ">> \o name
                \o <<" ","m","u","s","t"," ","b","e"," ","a"," ","v","a","l","i","d"," ">>
                \o describe(expectedType, FALSE).s
                \o <<","," ","b","u","t"," ","i","t"," ","w","a","s"," ">>
                \o describe(valueType, TRUE).s
  IN IF valueType \in {TNull, TUndefined}
     THEN ErrorResult(head \o <<".">>, heap, log)
     ELSE IF json.thrown THEN ThrownResult("TypeError", <<>>, heap, log)
     ELSE ErrorResult(head \o <<":"," ">>
                        \o (IF json.defined THEN json.s
                            ELSE <<"u","n","d","e","f","i","n","e","d">>)
                        \o <<".">>,
                      heap, log)

\* value[key] and value[key] = item.  Only plain objects hold the fields of
\* this model: an instance of a class reads as undefined in each of them.
GetField(heap, value, key) ==
  IF value.k = "ref" THEN GetProp(heap[value.a], key) ELSE Undefined

\* The check of a field without the assignment of its result
SetFieldSkipped(heap, value, key, item) == heap

\* The assignment made to every plain object instead of the one checked
SetFieldOfEveryObject(heap, value, key, item) ==
  [a \in 1..Len(heap) |->
     IF heap[a].kind = "object" THEN SetProp(heap[a], key, item) ELSE heap[a]]

SetField(heap, value, key, item) ==
  IF value.k = "ref" THEN [heap EXCEPT ![value.a] = SetProp(@, key, item)] ELSE heap

\* What the loop over the types of a union returns for the member that accepts
UnionValue(value, result) == value

\* The name of the struct passed on in place of that of the field
QualifiedNameWithoutKey(name, key) == name

\* `${name}.${key}`
QualifiedName(name, key) == name \o <<".">> \o key

\* The failure returned as the error of the check
ensureUnreachableReported(heap) ==
  ErrorResult(<<"U","n","r","e","a","c","h","a","b","l","e"," ","c","o","d","e"," ",
                "e","x","e","c","u","t","e","d",".">>,
              heap, <<>>)

\* ensureUnreachable(): throw new Error('Unreachable code executed.')
ensureUnreachable(heap) ==
  ThrownResult("Error",
               <<"U","n","r","e","a","c","h","a","b","l","e"," ","c","o","d","e"," ",
                 "e","x","e","c","u","t","e","d",".">>,
               heap, <<>>)

RECURSIVE checkType(_, _, _, _)
RECURSIVE checkOneOf(_, _, _, _, _, _)
RECURSIVE checkStruct(_, _, _, _, _, _)

checkType(heap, value, expectedType, name) ==
  LET valueType == getType(heap, value) IN
  IF IsBuiltInType(expectedType)
  THEN IF StrictEquals(valueType, expectedType)
       THEN ValueResult(value, heap, <<>>)
       ELSE MustBeError(name, expectedType, valueType, heap, <<>>)
  ELSE IF PrototypeName(expectedType) = <<"E","n","u","m">>
  THEN LET constant == valueOf(expectedType, toUpperCase(ToStringJS(heap, value)))
       IN IF constant.thrown
          THEN MustBeError(name, expectedType, valueType, heap, <<>>)
          ELSE ValueResult(constant.value, heap, <<>>)
  ELSE IF TypeofType(expectedType) = "function"
  THEN IF InstanceOf(value, expectedType)
       THEN ValueResult(value, heap, <<>>)
       ELSE LET convertedValue == New(expectedType, heap, value)
                log == <<NewEvent(expectedType)>>
            IN IF convertedValue.thrown
               THEN ThrownResult("TypeError", <<>>, heap, log)
               ELSE IF IsInvalid(heap, convertedValue.value)
               THEN MustBeValidError(name, expectedType, valueType, value, heap, log)
               ELSE ValueResult(convertedValue.value, heap, log)
  ELSE IF expectedType.d = "union"
  THEN checkOneOf(heap, value, expectedType, 1, name, <<>>)
  ELSE IF TypeofType(expectedType) = "object"
  THEN LET result == checkType(heap, value, TObject, name)
       IN IF result.st # "value" THEN result
          ELSE checkStruct(heap, value, expectedType, 1, name, <<>>)
  ELSE ensureUnreachable(heap)

\* for (const type of expectedType), from the i-th type on
checkOneOf(heap, value, expectedType, i, name, log) ==
  IF i > Len(expectedType.types)
  THEN MustBeError(name, expectedType, getType(heap, value), heap, log)
  ELSE LET result == checkType(heap, value, expectedType.types[i], name)
       IN IF result.st = "value"
          THEN ValueResult(UnionValue(value, result), result.heap, log \o result.log)
          ELSE IF result.st = "error"
          THEN checkOneOf(result.heap, value, expectedType, i + 1, name, log \o result.log)
          ELSE [result EXCEPT !.log = log \o result.log]

\* for (const key in expectedType), from the i-th key on
checkStruct(heap, value, expectedType, i, name, log) ==
  IF i > Len(expectedType.fields)
  THEN ValueResult(value, heap, log)
  ELSE LET key == expectedType.fields[i].key
           read == log \o <<ReadEvent(value, key)>>
           result == checkType(heap, GetField(heap, value, key),
                               expectedType.fields[i].type, QualifiedName(name, key))
       IN IF result.st # "value"
          THEN [result EXCEPT !.log = read \o result.log]
          ELSE checkStruct(SetField(result.heap, value, key, result.value), value,
                           expectedType, i + 1, name,
                           read \o result.log \o <<WriteEvent(value, key)>>)

(***************************************************************************)
(* ensureType, ensureItemType                                              *)
(***************************************************************************)
\* How a call ends: it returns a value, or throws a ValidationError, a
\* TypeError or an Error with a message.
Outcome(result) ==
  IF result.st = "value" THEN [kind |-> "return", value |-> result.value, message |-> <<>>]
  ELSE IF result.st = "error"
  THEN [kind |-> "ValidationError", value |-> Undefined, message |-> result.error]
  ELSE [kind |-> result.st, value |-> Undefined, message |-> result.error]

ensureType(heap, value, expectedType, name) == checkType(heap, value, expectedType, name)

\* The check of an item without the assignment of its result
SetItemSkipped(heap, array, i, item) == heap

\* array[index] = result.value, for the i-th item
SetItem(heap, array, i, item) == [heap EXCEPT ![array.a].items[i] = item]

\* array.forEach((item, index) => ...), from the i-th item on
RECURSIVE checkItems(_, _, _, _, _, _)
checkItems(heap, array, expectedType, i, name, log) ==
  IF i > Len(heap[array.a].items)
  THEN ValueResult(array, heap, log)
  ELSE LET read == log \o <<ReadEvent(array, NatToString(i - 1))>>
           result == checkType(heap, heap[array.a].items[i], expectedType,
                               QualifiedName(name, NatToString(i - 1)))
       IN IF result.st # "value"
          THEN [result EXCEPT !.log = read \o result.log]
          ELSE checkItems(SetItem(result.heap, array, i, result.value),
                          array, expectedType, i + 1, name,
                          read \o result.log \o <<WriteEvent(array, NatToString(i - 1))>>)

ensureItemType(heap, array, expectedType, name) ==
  LET result == checkType(heap, array, TArray, name)
  IN IF result.st # "value" THEN result
     ELSE checkItems(heap, array, expectedType, 1, name, <<>>)

\* Object.keys(value) of a value of the type Object: the fields of a plain
\* object, name and ordinal of an enum constant, nothing of a Date and of a
\* Color, which keeps its value in a private field
ObjectKeys(heap, value) ==
  CASE value.k = "ref" -> [i \in 1..Len(heap[value.a].props) |-> heap[value.a].props[i].key]
    [] value.k = "enum" -> <<<<"n","a","m","e">>, <<"o","r","d","i","n","a","l">>>>
    [] OTHER -> <<>>

\* value.length of a string and of an array
LengthOf(heap, value) ==
  IF value.k = "string" THEN Len(value.s) ELSE Len(heap[value.a].items)

\* ensureNonEmpty(value, { name })
ensureNonEmpty(heap, value, name) ==
  LET valueType == getType(heap, value) IN
  IF \/ StrictEquals(valueType, TString) /\ LengthOf(heap, value) = 0
     \/ StrictEquals(valueType, TArray) /\ LengthOf(heap, value) = 0
     \/ StrictEquals(valueType, TObject) /\ Len(ObjectKeys(heap, value)) = 0
  THEN LET json == JSONStringify(heap, value, {})
       IN IF json.thrown THEN ThrownResult("TypeError", <<>>, heap, <<>>)
          ELSE ErrorResult(<<"T","h","e"," ">> \o name
                             \o <<" ","m","u","s","t"," ","n","o","t"," ","b","e"," ",
                                  "e","m","p","t","y",","," ","b","u","t"," ","i","t"," ",
                                  "w","a","s"," ">>
                             \o (IF json.defined THEN json.s
                                 ELSE <<"u","n","d","e","f","i","n","e","d">>)
                             \o <<".">>,
                           heap, <<>>)
  ELSE ValueResult(value, heap, <<>>)

\* The length check left out
TooManyArgumentsNever(args, expectedTypes) == FALSE

\* args.length > expectedTypes.length
TooManyArguments(args, expectedTypes) == Len(args) > Len(expectedTypes)

\* `Too many arguments: expected ${expectedTypes.length}, but got ${args.length}.`
TooManyArgumentsError(args, expectedTypes) ==
  <<"T","o","o"," ","m","a","n","y"," ","a","r","g","u","m","e","n","t","s",":"," ",
    "e","x","p","e","c","t","e","d"," ">> \o NatToString(Len(expectedTypes))
    \o <<","," ","b","u","t"," ","g","o","t"," ">> \o NatToString(Len(args)) \o <<".">>

\* The number of the argument taken for its index
ArgumentNameOfIndex(names, i) ==
  IF i <= Len(names) /\ Len(names[i]) > 0 THEN names[i]
  ELSE <<"a","r","g","u","m","e","n","t"," ","#">> \o NatToString(i - 1)

\* names[index] ? names[index] : `argument #${index + 1}`, for the i-th name:
\* a name that is missing or empty is falsy
ArgumentName(names, i) ==
  IF i <= Len(names) /\ Len(names[i]) > 0 THEN names[i]
  ELSE <<"a","r","g","u","m","e","n","t"," ","#">> \o NatToString(i)

\* args[index], for the i-th argument: undefined beyond the length
GetArgument(args, i) == IF i <= Len(args) THEN args[i] ELSE Undefined

\* expectedTypes.forEach((expectedType, index) => ...), from the i-th type on
RECURSIVE checkArguments(_, _, _, _, _, _)
checkArguments(heap, args, expectedTypes, names, i, log) ==
  IF i > Len(expectedTypes.types)
  THEN ValueResult(Undefined, heap, log)
  ELSE LET read == log \o <<ReadEvent(args, NatToString(i - 1))>>
           result == ensureType(heap, GetArgument(heap[args.a].items, i),
                                expectedTypes.types[i], ArgumentName(names, i))
       IN IF result.st # "value"
          THEN [result EXCEPT !.log = read \o result.log]
          ELSE checkArguments(result.heap, args, expectedTypes, names, i + 1,
                              read \o result.log)

\* ensureArguments(args, expectedTypes, names) with arrays for expectedTypes
\* and names, which pass the two calls of ensureThat
ensureArguments(heap, args, expectedTypes, names) ==
  IF TooManyArguments(heap[args.a].items, expectedTypes.types)
  THEN ErrorResult(TooManyArgumentsError(heap[args.a].items, expectedTypes.types), heap, <<>>)
  ELSE checkArguments(heap, args, expectedTypes, names, 1, <<>>)

(***************************************************************************)
(* The values, heaps and types the calls are made with                     *)
(***************************************************************************)
DefaultName == <<"v","a","l","u","e">>
UserName == <<"U","s","e","r">>
DateString == <<"1","9","7","0","-","0","1","-","0","2">>

\* class YesNo extends Enum { static YES = new YesNo('YES', 0); static NO = ... }
YesNoName == <<"Y","e","s","N","o">>
YES == EnumV(YesNoName, <<"Y","E","S">>, 0)
NO == EnumV(YesNoName, <<"N","O">>, 1)
YesNo == Class(YesNoName, <<"E","n","u","m">>, <<YES, NO>>)
\* class Size extends Enum { static Small = new Size('Small', 0); static LARGE = ... }
SizeName == <<"S","i","z","e">>
Small == EnumV(SizeName, <<"S","m","a","l","l">>, 0)
LARGE == EnumV(SizeName, <<"L","A","R","G","E">>, 1)
Size == Class(SizeName, <<"E","n","u","m">>, <<Small, LARGE>>)
\* the built-in Date and the Color of this library: functions whose prototype
\* is Function.prototype, of the name ''
TDate == Class(<<"D","a","t","e">>, <<>>, <<>>)
TColor == Class(<<"C","o","l","o","r">>, <<>>, <<>>)

BuiltInTypes ==
  {TUndefined, TNull, TBoolean, TNumber, TBigInt, TString, TSymbol, TFunction,
   TObject, TArray}
LeafTypes == BuiltInTypes \cup {YesNo, Size, TDate, TColor}

KeyA == <<"a">>
KeyB == <<"b">>
KeyC == <<"c">>
KeyD == <<"d">>
KeyF == <<"f">>
KeyG == <<"g">>
KeyU == <<"u">>

\* The members the unions over plain values are built from: each kind of type
UnionMembers ==
  {TString, TNumber, TUndefined, TDate, YesNo,
   Struct(<<Field(KeyA, TString)>>), Union(<<TBoolean, TNull>>)}

UnionsOf(members, n) ==
  UNION {{Union(types) : types \in [1..len -> members]} : len \in 1..n}

\* The heap of the calls on plain values: {}, [], ['no'], {a: 'x'}, {a: 1n}
PlainHeap ==
  <<ObjectCell(<<>>), ArrayCell(<<>>), ArrayCell(<<Str(<<"n","o">>)>>),
    ObjectCell(<<Prop(KeyA, Str(<<"x">>))>>), ObjectCell(<<Prop(KeyA, BigIntV(1))>>)>>

PlainValues ==
  {Undefined, Null, Bool(TRUE), Bool(FALSE), Num(0), Num(42), NaNValue, BigIntV(1),
   Str(<<>>), Str(<<"n","o">>), Str(<<"Y","E","S">>), Str(<<"x">>), Str(DateString),
   Str(<<"f","f">>), SymbolV(<<"s">>), FunctionV(<<"(",")"," ","=",">"," ","{","}">>),
   DateV(0), InvalidDate, ColorV(255), InvalidColor, YES, NO, Small, LARGE,
   Str(<<"s","m","a","l","l">>), Str(<<"L","a","r","g","e">>)}
    \cup {Ref(a) : a \in 1..Len(PlainHeap)}

Case(op, heap, value, type, name) ==
  [op |-> op, heap |-> heap, value |-> value, type |-> type, name |-> name]

PlainCases ==
  {Case("ensureType", PlainHeap, v, t, n) :
     v \in PlainValues, t \in LeafTypes, n \in {DefaultName, UserName}}
    \cup {Case("ensureType", PlainHeap, v, t, DefaultName) :
            v \in PlainValues, t \in UnionsOf(UnionMembers, MaxUnion)}
    \cup {Case("ensureType", PlainHeap, v,
                Struct(<<Field(KeyA, TString), Field(KeyB, TUndefined)>>), n) :
            v \in PlainValues, n \in {DefaultName, UserName}}

\* Objects { a, b, c: 42 } and { a, c: 42 } checked against { a: T1, b: T2 }
FieldValues ==
  {Str(DateString), Str(<<"x">>), Str(<<"n","o">>), Num(42), Null, Undefined, DateV(0)}
FieldTypes ==
  {TString, TNumber, TDate, YesNo, TUndefined, TObject,
   Union(<<TDate, TUndefined>>), Union(<<TString, TNull>>)}

FlatHeaps ==
  {<<ObjectCell(<<Prop(KeyA, a), Prop(KeyB, b), Prop(KeyC, Num(42))>>)>> :
     a \in FieldValues, b \in FieldValues}
    \cup {<<ObjectCell(<<Prop(KeyA, a), Prop(KeyC, Num(42))>>)>> : a \in FieldValues}

FlatCases ==
  {Case("ensureType", h, Ref(1), Struct(<<Field(KeyA, t1), Field(KeyB, t2)>>), UserName) :
     h \in FlatHeaps, t1 \in FieldTypes, t2 \in FieldTypes}

\* Objects { a: x, b: y } with x and y objects { d }, y the same object as x or
\* another one, checked against { a: { d: T1 }, b: { d: T2 } }
NestedValues == {Str(DateString), Str(<<"x">>), Num(42)}
NestedTypes == {TString, TDate, TNumber, TObject, Union(<<TDate, TString>>)}

NestedHeaps ==
  {<<ObjectCell(<<Prop(KeyA, Ref(2)), Prop(KeyB, Ref(b))>>),
     ObjectCell(<<Prop(KeyD, x)>>), ObjectCell(<<Prop(KeyD, y)>>)>> :
     b \in {2, 3}, x \in NestedValues, y \in NestedValues}

NestedCases ==
  {Case("ensureType", h, Ref(1),
        Struct(<<Field(KeyA, Struct(<<Field(KeyD, t1)>>)),
                 Field(KeyB, Struct(<<Field(KeyD, t2)>>))>>), DefaultName) :
     h \in NestedHeaps, t1 \in NestedTypes, t2 \in NestedTypes}

\* Objects { f, g }, alone and as the field u of another object, checked
\* against unions of two structs { f: T1, g: T2 }
MemberTypes == {TObject, TDate, TString, TNumber}
MemberStructs ==
  {Struct(<<Field(KeyF, t1), Field(KeyG, t2)>>) : t1 \in MemberTypes, t2 \in MemberTypes}

MemberHeaps ==
  {<<ObjectCell(<<Prop(KeyU, Ref(2))>>), ObjectCell(<<Prop(KeyF, x), Prop(KeyG, y)>>)>> :
     x \in NestedValues, y \in NestedValues}

MemberCases ==
  {Case("ensureType", h, Ref(2), Union(<<m1, m2>>), DefaultName) :
     h \in MemberHeaps, m1 \in MemberStructs, m2 \in MemberStructs}
    \cup {Case("ensureType", h, Ref(1), Struct(<<Field(KeyU, Union(<<m1, m2>>))>>), DefaultName) :
            h \in MemberHeaps, m1 \in MemberStructs, m2 \in MemberStructs}

\* Arrays of up to two items, and values that are no arrays, with the types
\* of their items
ItemValues == {Str(DateString), Str(<<"x">>), Str(<<"n","o">>), Num(42)}
ItemTypes == {TString, TNumber, TDate, YesNo, Union(<<TDate, TUndefined>>)}

ItemHeaps ==
  {<<ArrayCell(items)>> : items \in UNION {[1..len -> ItemValues] : len \in 0..2}}
    \cup {<<ObjectCell(<<>>)>>}

ItemCases ==
  {Case("ensureItemType", h, v, t, n) :
     h \in ItemHeaps, v \in {Ref(1), Str(<<"x">>), Null}, t \in ItemTypes,
     n \in {DefaultName, <<"n","a","m","e","s">>}}

\* Arrays of arguments with arrays of types and of names: more arguments
\* than types, as many, and fewer
ArgumentValues == {Num(42), Str(<<"x">>), Undefined}
ArgumentTypes == {TNumber, TString, TDate, Union(<<TString, TUndefined>>)}
ArgumentNames ==
  {<<>>, <<<<"i","d">>>>, <<<<>>, <<"n","a","m","e">>>>,
   <<<<"i","d">>, <<"n","a","m","e">>>>}

ArgumentCases ==
  {Case("ensureArguments", <<ArrayCell(args)>>, Ref(1), Union(types), names) :
     args \in UNION {[1..len -> ArgumentValues] : len \in 0..MaxArgs},
     types \in UNION {[1..len -> ArgumentTypes] : len \in 0..(MaxArgs - 1)},
     names \in ArgumentNames}

\* The types that are described, alone and in arrays, with and without
\* articles: the built-in ones, NaN, enums, constructors, one of them with a
\* name that starts with a vowel in upper case, and an array within an array
TOutputTracker ==
  Class(<<"O","u","t","p","u","t","T","r","a","c","k","e","r">>, <<>>, <<>>)
DescribedTypes ==
  BuiltInTypes \cup {TNaN, YesNo, Size, TDate, TColor, TOutputTracker}
DescribedItems == {TString, TNumber, TUndefined, TObject, YesNo, Union(<<TBoolean, TNull>>)}

DescribeCases ==
  {Case("describe", <<>>, Bool(articles), t, <<>>) :
     articles \in BOOLEAN,
     t \in DescribedTypes
             \cup UNION {{Union(types) : types \in [1..len -> DescribedItems]} :
                           len \in 0..MaxDescribed}}

\* Values in the place of the type: 'abc', 42, true
LiteralTypes == {Literal(Str(<<"a","b","c">>)), Literal(Num(42)), Literal(Bool(TRUE))}

LiteralCases ==
  {Case("ensureType", PlainHeap, v, t, DefaultName) :
     v \in PlainValues, t \in LiteralTypes}

\* The plain values, checked for being empty
NonEmptyCases ==
  {Case("ensureNonEmpty", PlainHeap, v, TUndefined, n) :
     v \in PlainValues, n \in {DefaultName, UserName}}

Cases ==
  PlainCases \cup FlatCases \cup NestedCases \cup MemberCases \cup ItemCases
    \cup ArgumentCases \cup NonEmptyCases \cup DescribeCases \cup LiteralCases

(***************************************************************************)
(* The state machine: a caller that holds a heap of objects and calls      *)
(* ensureType or ensureItemType, and may call ensureType again with the    *)
(* value it got back.                                                      *)
(***************************************************************************)
VARIABLES
  heap,     \* the objects and arrays of the caller
  before,   \* the heap when the last call was made
  call,     \* the call: op, value, type, name
  outcome,  \* how the last call ended
  log,      \* what the last call did, in order
  calls,    \* the number of calls made
  store,    \* the Store: its state and its listeners
  emit,     \* the notification of the listeners that is in progress
  told,     \* what the last dispatch did, and which listeners are unsubscribed
  responses, \* a ConfigurableResponses and the calls of next() made on it
  tracker,  \* an event target, its OutputTracker and the events dispatched
  logging,  \* the loggers of the LogManager and the records they emitted
  polling,  \* a LongPolling server, its data source and its clients
  timer     \* a Timer, its queue of tasks and the tasks that were run

validationVars == <<heap, before, call, outcome, log, calls>>
storeVars == <<store, emit, told>>
collaboratorVars == <<responses, tracker, logging, polling, timer>>
vars == <<validationVars, storeVars, collaboratorVars>>
notStoreVars == <<validationVars, collaboratorVars>>

NoOutcome == [kind |-> "none", value |-> Undefined, message |-> <<>>]

\* The parts of the library that a behaviour does not use
Absent == "absent"
NoValidation ==
  /\ heap = <<>>
  /\ before = <<>>
  /\ call = [op |-> "none", value |-> Undefined, type |-> TUndefined, name |-> <<>>]
  /\ outcome = NoOutcome
  /\ log = <<>>
  /\ calls = 0
NoStore == store = Absent /\ emit = Absent /\ told = Absent
NoResponses == responses = Absent
NoTracker == tracker = Absent
NoLogging == logging = Absent
NoPolling == polling = Absent
NoTimer == timer = Absent
NoCollaborators ==
  NoResponses /\ NoTracker /\ NoLogging /\ NoPolling /\ NoTimer

\* The caller has built its objects and is about to make a call.
Init ==
  \E c \in Cases :
    /\ heap = c.heap
    /\ before = c.heap
    /\ call = [op |-> c.op, value |-> c.value, type |-> c.type, name |-> c.name]
    /\ outcome = NoOutcome
    /\ log = <<>>
    /\ calls = 0
    /\ NoStore
    /\ NoCollaborators

Finish(value, result) ==
  /\ UNCHANGED <<storeVars, collaboratorVars>>
  /\ before' = heap
  /\ heap' = result.heap
  /\ call' = [call EXCEPT !.value = value]
  /\ outcome' = Outcome(result)
  /\ log' = result.log
  /\ calls' = calls + 1

\* The value of the next call: the one the caller holds, then the one the last
\* call returned
Argument == IF calls = 0 THEN call.value ELSE outcome.value

\* ensureType(value, expectedType, { name }): a first call, or a further call
\* with the value the last call returned and the same type
EnsureType ==
  /\ call.op = "ensureType"
  /\ calls < MaxCalls
  /\ calls > 0 => outcome.kind = "return"
  /\ Finish(Argument, ensureType(heap, Argument, call.type, call.name))

\* ensureItemType(array, expectedType, { name })
EnsureItemType ==
  /\ call.op = "ensureItemType"
  /\ calls < MaxCalls
  /\ calls > 0 => outcome.kind = "return"
  /\ Finish(Argument, ensureItemType(heap, Argument, call.type, call.name))

\* ensureArguments(args, expectedTypes, names): a first call, or a further call
\* with the same arguments
EnsureArguments ==
  /\ call.op = "ensureArguments"
  /\ calls < MaxCalls
  /\ calls > 0 => outcome.kind = "return"
  /\ Finish(call.value, ensureArguments(heap, call.value, call.type, call.name))

\* ensureNonEmpty(value, { name }): a first call, or a further call with the
\* value the last call returned
EnsureNonEmpty ==
  /\ call.op = "ensureNonEmpty"
  /\ calls < MaxCalls
  /\ calls > 0 => outcome.kind = "return"
  /\ Finish(Argument, ensureNonEmpty(heap, Argument, call.name))

\* describe(type, { articles }): the description is returned, or a TypeError
\* is thrown
Describe ==
  /\ call.op = "describe"
  /\ calls < MaxCalls
  /\ LET description == describe(call.type, call.value.b)
     IN Finish(call.value,
               IF description.thrown THEN ThrownResult("TypeError", <<>>, heap, <<>>)
               ELSE ValueResult(Str(description.s), heap, <<>>))

Next ==
  EnsureType \/ EnsureItemType \/ EnsureArguments \/ EnsureNonEmpty \/ Describe

Spec == Init /\ [][Next]_vars

(***************************************************************************)
(* What the claims are stated with                                         *)
(***************************************************************************)
Called == calls >= 1
CalledEnsureType == Called /\ call.op = "ensureType"
Returned == outcome.kind = "return"
Failed == outcome.kind = "ValidationError"

\* The phrases of the error messages, as the tests of the library spell them
Phrase(tag) ==
  CASE tag = TUndefined -> <<"u","n","d","e","f","i","n","e","d">>
    [] tag = TNull -> <<"n","u","l","l">>
    [] tag = TNaN -> <<"N","a","N">>
    [] tag = TBoolean -> <<"a"," ","b","o","o","l","e","a","n">>
    [] tag = TNumber -> <<"a"," ","n","u","m","b","e","r">>
    [] tag = TBigInt -> <<"a"," ","b","i","g","i","n","t">>
    [] tag = TString -> <<"a"," ","s","t","r","i","n","g">>
    [] tag = TSymbol -> <<"a"," ","s","y","m","b","o","l">>
    [] tag = TFunction -> <<"a"," ","f","u","n","c","t","i","o","n">>
    [] tag = TObject -> <<"a","n"," ","o","b","j","e","c","t">>
    [] tag = TArray -> <<"a","n"," ","a","r","r","a","y">>

\* "The {name} must be {expected}, but it was {actual}."
MustBeMessage(name, expected, actual) ==
  <<"T","h","e"," ">> \o name \o <<" ","m","u","s","t"," ","b","e"," ">> \o expected
    \o <<","," ","b","u","t"," ","i","t"," ","w","a","s"," ">> \o actual \o <<".">>

\* The tag of a value, read off the value: null, arrays and NaN first
TagOf(h, v) ==
  CASE v.k = "null" -> TNull
    [] v.k = "undefined" -> TUndefined
    [] v.k = "boolean" -> TBoolean
    [] v.k = "number" -> IF v.nan THEN TNaN ELSE TNumber
    [] v.k = "bigint" -> TBigInt
    [] v.k = "string" -> TString
    [] v.k = "symbol" -> TSymbol
    [] v.k = "function" -> TFunction
    [] v.k = "ref" -> IF h[v.a].kind = "array" THEN TArray ELSE TObject
    [] v.k \in {"Date", "Color", "enum"} -> TObject

(***************************************************************************)
(* C1  For a built-in type T and any value v, ensureType(v, T) returns v   *)
(* itself, and changes nothing, exactly when the tag of v is T; otherwise  *)
(* it throws a ValidationError "The {name} must be {a/an T}, but it was    *)
(* {a/an tag of v}.".                                                      *)
(***************************************************************************)
C1_BuiltInTypeByTag ==
  (CalledEnsureType /\ call.type \in BuiltInTypes) =>
    IF getType(before, call.value) = call.type
    THEN /\ Returned
         /\ outcome.value = call.value
         /\ heap = before
    ELSE /\ Failed
         /\ outcome.message =
              MustBeMessage(call.name, Phrase(call.type),
                            Phrase(getType(before, call.value)))

\* an array is not accepted for Object, null not for undefined, undefined not
\* for null, and an object is accepted for Object
C1_Witness ==
  /\ CalledEnsureType
  /\ \/ call.type = TObject /\ call.value.k = "ref" /\ before[call.value.a].kind = "array" /\ Failed
     \/ call.type = TUndefined /\ call.value = Null /\ Failed
     \/ call.type = TNull /\ call.value = Undefined /\ Failed

(***************************************************************************)
(* C2  getType gives every value one of eleven tags: null for null, array  *)
(* for every array, NaN for the number NaN, and else the tag of typeof;    *)
(* ensureType(NaN, Number) fails with "... must be a number, but it was    *)
(* NaN.".                                                                  *)
(***************************************************************************)
C2_TypeTags ==
  Called =>
    /\ getType(before, call.value) = TagOf(before, call.value)
    /\ getType(before, call.value) \in BuiltInTypes \cup {TNaN}
    /\ (CalledEnsureType /\ call.value = NaNValue /\ call.type = TNumber) =>
         /\ Failed
         /\ outcome.message =
              MustBeMessage(call.name, <<"a"," ","n","u","m","b","e","r">>, <<"N","a","N">>)

C2_Witness ==
  CalledEnsureType /\ call.value = NaNValue /\ call.type = TNumber /\ Failed

\* The members of the union of the call that accept the value of the call, each
\* judged alone against the value as the caller passed it in
CalledWithUnion == CalledEnsureType /\ call.type.d = "union"
MemberResult(i) == checkType(before, call.value, call.type.types[i], call.name)
AcceptingMembers ==
  {i \in 1..Len(call.type.types) : MemberResult(i).st = "value"}

endsWith(s, suffix) ==
  Len(s) >= Len(suffix) /\ SubSeq(s, Len(s) - Len(suffix) + 1, Len(s)) = suffix

(***************************************************************************)
(* C3  ensureType(v, [T1, ..., Tn]) succeeds exactly when at least one     *)
(* member Ti accepts v, each member judged against the value as the caller *)
(* passed it in.                                                           *)
(***************************************************************************)
C3_UnionAcceptsIffMemberAccepts ==
  CalledWithUnion => (Returned <=> AcceptingMembers # {})

(***************************************************************************)
(* C4  A union check that succeeds returns the result value of the         *)
(* leftmost member that accepts the value: the coerced value.              *)
(***************************************************************************)
C4_UnionReturnsResultOfMember ==
  (CalledWithUnion /\ Returned /\ AcceptingMembers # {}) =>
    outcome.value =
      MemberResult(CHOOSE i \in AcceptingMembers : \A j \in AcceptingMembers : i <= j).value

(***************************************************************************)
(* C5  A union of members of any kind that all reject the value ends in a  *)
(* ValidationError "The {name} must be {joined descriptions}, but it was   *)
(* {a/an tag}.", and in no other exception.                                *)
(***************************************************************************)
C5_UnionErrorOfAnyMembers ==
  (CalledWithUnion /\ AcceptingMembers = {}) =>
    /\ Failed
    /\ startsWith(outcome.message,
                  <<"T","h","e"," ">> \o call.name \o <<" ","m","u","s","t"," ","b","e"," ">>)
    /\ endsWith(outcome.message,
                <<","," ","b","u","t"," ","i","t"," ","w","a","s"," ">>
                  \o Phrase(getType(before, call.value)) \o <<".">>)

\* The objects and arrays below a value, one entry for each path to them
RECURSIVE Flatten(_)
Flatten(seqs) == IF Len(seqs) = 0 THEN <<>> ELSE seqs[1] \o Flatten(Tail(seqs))

RECURSIVE RefsFrom(_, _, _)
RefsFrom(h, v, depth) ==
  IF v.k # "ref" \/ depth = 0 THEN <<>>
  ELSE <<v.a>> \o
       (IF h[v.a].kind = "array"
        THEN Flatten([i \in 1..Len(h[v.a].items) |-> RefsFrom(h, h[v.a].items[i], depth - 1)])
        ELSE Flatten([i \in 1..Len(h[v.a].props) |-> RefsFrom(h, h[v.a].props[i].val, depth - 1)]))

\* No object below the value is reached on two paths: nothing shared, no cycle
NoSharing(h, v) ==
  LET refs == RefsFrom(h, v, Len(h) + 1)
  IN \A i, j \in 1..Len(refs) : i # j => refs[i] # refs[j]

RECURSIVE NoStructInUnion(_, _)
NoStructInUnion(type, inUnion) ==
  CASE type.d = "struct" ->
         /\ ~inUnion
         /\ \A i \in 1..Len(type.fields) : NoStructInUnion(type.fields[i].type, inUnion)
    [] type.d = "union" ->
         \A i \in 1..Len(type.types) : NoStructInUnion(type.types[i], TRUE)
    [] OTHER -> TRUE

CalledWithStruct == CalledEnsureType /\ call.type.d = "struct"
FieldCount == Len(call.type.fields)
FieldKey(i) == call.type.fields[i].key
\* The check of the i-th field alone, on the object as the caller passed it in
FieldResult(i) ==
  checkType(before, GetField(before, call.value, FieldKey(i)), call.type.fields[i].type,
            call.name \o <<".">> \o FieldKey(i))

FieldsHoldResults ==
  /\ outcome.value = call.value
  /\ \A i \in 1..FieldCount :
       /\ FieldResult(i).st = "value"
       /\ GetField(heap, call.value, FieldKey(i)) = FieldResult(i).value
  /\ call.value.k = "ref" =>
       \A p \in 1..Len(before[call.value.a].props) :
         LET prop == before[call.value.a].props[p] IN
         (\A i \in 1..FieldCount : FieldKey(i) # prop.key) =>
           /\ HasKey(heap[call.value.a], prop.key)
           /\ GetProp(heap[call.value.a], prop.key) = prop.val

(***************************************************************************)
(* C6  as claimed: when ensureType(x, S) succeeds for a struct S, it       *)
(* returns the object x itself, every field of S holds the result of       *)
(* checking the original x[f] against S[f], and every other field of x is  *)
(* unchanged.                                                              *)
(***************************************************************************)
C6_Original_StructFieldsHoldResults ==
  (CalledWithStruct /\ Returned) => FieldsHoldResults

(***************************************************************************)
(* C6  as amended: the same, for an x in which no object is reached on two *)
(* paths of fields (no object shared by two fields, no cycle).             *)
(***************************************************************************)
C6_StructFieldsHoldResults ==
  (CalledWithStruct /\ Returned /\ NoSharing(before, call.value)) => FieldsHoldResults

\* a date string field has become a Date, beside a field the struct does not name
C6_Witness ==
  /\ CalledWithStruct /\ Returned /\ NoSharing(before, call.value)
  /\ call.value.k = "ref"
  /\ GetField(before, call.value, KeyA) = Str(DateString)
  /\ GetField(heap, call.value, KeyA) = DateV(24 * 60 * 60 * 1000)
  /\ GetField(heap, call.value, KeyC) = Num(42)

(***************************************************************************)
(* C7  A struct check first requires the tag object of the value, else it  *)
(* fails with "The {name} must be an object, but it was {a/an tag}." and   *)
(* reads and writes no field; then it reads, checks and writes the fields  *)
(* in the order of the descriptor under the name "{name}.{field}", and the *)
(* first field that fails ends it with the message of that field, no later *)
(* field read or written.                                                  *)
(***************************************************************************)
\* The reads and writes of the fields of the value of the call, in order
TopEvents ==
  SelectSeq(log, LAMBDA e : e.ev \in {"read", "write"} /\ e.of = call.value)
\* read k1, write k1, read k2, write k2, ...: the first n events of a check
\* that fails at no field
EventsInOrder(n) ==
  [e \in 1..n |->
     IF e % 2 = 1 THEN ReadEvent(call.value, FieldKey((e + 1) \div 2))
     ELSE WriteEvent(call.value, FieldKey(e \div 2))]

C7_StructCheckInOrder ==
  CalledWithStruct =>
    IF getType(before, call.value) # TObject
    THEN /\ Failed
         /\ outcome.message =
              MustBeMessage(call.name, <<"a","n"," ","o","b","j","e","c","t">>,
                            Phrase(getType(before, call.value)))
         /\ log = <<>>
         /\ heap = before
    ELSE IF Returned
    THEN TopEvents = EventsInOrder(2 * FieldCount)
    ELSE \E j \in 1..FieldCount :
           /\ TopEvents = EventsInOrder(2 * j - 1)
           /\ \A i \in j..FieldCount :
                GetField(heap, call.value, FieldKey(i)) = GetField(before, call.value, FieldKey(i))
           /\ Failed =>
                \/ startsWith(outcome.message,
                              <<"T","h","e"," ">> \o call.name \o <<".">> \o FieldKey(j)
                                \o <<" ","m","u","s","t"," ","b","e"," ">>)
                \/ /\ GetField(before, call.value, FieldKey(j)).k = "ref"
                   /\ startsWith(outcome.message,
                                 <<"T","h","e"," ">> \o call.name \o <<".">> \o FieldKey(j)
                                   \o <<".">>)
           /\ (Failed /\ NoSharing(before, call.value)) =>
                /\ FieldResult(j).st = "error"
                /\ outcome.message = FieldResult(j).error

\* the first of two fields fails: the second is not read
C7_Witness ==
  /\ CalledWithStruct /\ Failed
  /\ getType(before, call.value) = TObject
  /\ FieldCount = 2
  /\ TopEvents = <<ReadEvent(call.value, FieldKey(1))>>
  /\ GetField(before, call.value, FieldKey(2)) # Undefined

(***************************************************************************)
(* C8  Whenever ensureType with a struct, or ensureItemType, fails, the    *)
(* object or array passed in is as it was before the call.                 *)
(***************************************************************************)
C8_NoPartialSuccess ==
  (Called /\ Failed /\ (call.op = "ensureItemType" \/ call.type.d = "struct")) =>
    heap = before

(***************************************************************************)
(* C9  as claimed: for a struct S with fields of any kind and an x that    *)
(* ensureType(x, S) accepts, ensureType(ensureType(x, S), S) succeeds too  *)
(* and leaves the result of the single application.                        *)
(***************************************************************************)
SecondApplicationChangesNothing ==
  /\ Returned
  /\ outcome.value = call.value
  /\ heap = before

C9_Original_StructIdempotent ==
  (CalledWithStruct /\ calls >= 2) => SecondApplicationChangesNothing

(***************************************************************************)
(* C9  as amended: the same, for a struct S in which no union has a struct *)
(* among its members, and an x in which no object is reached on two paths. *)
(***************************************************************************)
C9_StructIdempotent ==
  (/\ CalledWithStruct /\ calls >= 2
   /\ NoStructInUnion(call.type, FALSE)
   /\ NoSharing(before, call.value)) => SecondApplicationChangesNothing

\* the second application finds a Date and an enum constant that the first made
C9_Witness ==
  /\ CalledWithStruct /\ calls >= 2 /\ Returned
  /\ NoStructInUnion(call.type, FALSE)
  /\ NoSharing(before, call.value)
  /\ GetField(heap, call.value, KeyA).k = "Date"
  /\ GetField(heap, call.value, KeyB) = NO

(***************************************************************************)
(* C10  For a constructor type C: an instance of C is returned as it is    *)
(* and nothing is constructed; for any other value new C(value) is         *)
(* constructed and returned exactly when its string form does not start    *)
(* with "invalid" in any letter case, and else the call fails.             *)
(* ensureType(null, Date) returns the date of time 0, ensureType(undefined,*)
(* Date) fails.                                                            *)
(***************************************************************************)
StartsWithInvalidIgnoringCase(s) ==
  /\ Len(s) >= 7
  /\ \E w \in {<<"i","I">>} \X {<<"n","N">>} \X {<<"v","V">>} \X {<<"a","A">>}
             \X {<<"l","L">>} \X {<<"i","I">>} \X {<<"d","D">>} :
       \A c \in 1..7 : s[c] \in {w[c][1], w[c][2]}

C10_ConstructorTypes ==
  (CalledEnsureType /\ call.type \in {TDate, TColor}) =>
    LET isInstance == \/ call.type = TDate /\ call.value.k = "Date"
                      \/ call.type = TColor /\ call.value.k = "Color"
        constructed == IF call.type = TDate THEN NewDate(before, call.value)
                       ELSE NewColor(before, call.value)
    IN /\ heap = before
       /\ IF isInstance
          THEN Returned /\ outcome.value = call.value /\ log = <<>>
          ELSE /\ log = <<NewEvent(call.type)>>
               /\ Returned <=>
                    /\ ~constructed.thrown
                    /\ ~StartsWithInvalidIgnoringCase(ToStringJS(before, constructed.value))
               /\ Returned => outcome.value = constructed.value
       /\ (call.type = TDate /\ call.value = Null) => (Returned /\ outcome.value = DateV(0))
       /\ (call.type = TDate /\ call.value = Undefined) => Failed

\* a value whose instance says "Invalid Date" is rejected, null is accepted
C10_Witness ==
  /\ CalledEnsureType /\ call.type = TDate
  /\ \/ call.value = Str(<<"x">>) /\ Failed
     \/ call.value = Null /\ Returned

(***************************************************************************)
(* C11  When new C(value) gives an invalid instance, the call fails with   *)
(* "The {name} must be a valid {C}, but it was {a/an tag}", then ": " and  *)
(* the JSON of the value for every value but null and undefined, then ".". *)
(***************************************************************************)
CalledWithConstructor == CalledEnsureType /\ call.type \in {TDate, TColor}
Constructed ==
  IF call.type = TDate THEN NewDate(before, call.value) ELSE NewColor(before, call.value)
\* new C(value) was called and returned an instance that says "Invalid ..."
ConstructedInvalid ==
  /\ CalledWithConstructor
  /\ log = <<NewEvent(call.type)>>
  /\ ~Constructed.thrown
  /\ Constructed.value.nan

MustBeValidMessage(name, typeName, actual, suffix) ==
  <<"T","h","e"," ">> \o name
    \o <<" ","m","u","s","t"," ","b","e"," ","a"," ","v","a","l","i","d"," ">> \o typeName
    \o <<","," ","b","u","t"," ","i","t"," ","w","a","s"," ">> \o actual \o suffix \o <<".">>

C11_InvalidInstanceMessage ==
  ConstructedInvalid =>
    /\ Failed
    /\ LET json == JSONStringify(before, call.value, {})
           tag == TagOf(before, call.value)
       IN outcome.message =
            MustBeValidMessage(call.name, call.type.name, Phrase(tag),
                               IF tag \in {TNull, TUndefined} THEN <<>>
                               ELSE <<":"," ">> \o (IF json.defined THEN json.s
                                                  ELSE <<"u","n","d","e","f","i","n","e","d">>))

(***************************************************************************)
(* C12  For an enum type E, with constants of names in any letter case,    *)
(* ensureType(v, E) returns the constant c of E when v is c or the string  *)
(* form of v is the name of c ignoring letter case, and for every other    *)
(* value fails with "The {name} must be a {E}, but it was {a/an tag}.".    *)
(***************************************************************************)
CalledWithEnum == CalledEnsureType /\ PrototypeName(call.type) = <<"E","n","u","m">>
\* The constants of the type that the value is, or names ignoring letter case
ConstantsMeant ==
  {c \in {call.type.constants[i] : i \in 1..Len(call.type.constants)} :
     \/ c = call.value
     \/ toLowerCase(ToStringJS(before, call.value)) = toLowerCase(c.name)}

C12_EnumIgnoringCase ==
  CalledWithEnum =>
    IF ConstantsMeant # {}
    THEN Returned /\ outcome.value \in ConstantsMeant
    ELSE /\ Failed
         /\ outcome.message =
              MustBeMessage(call.name, <<"a"," ">> \o call.type.name,
                            Phrase(TagOf(before, call.value)))

(***************************************************************************)
(* C13  ensureItemType(array, T, {name}) first requires the tag array,     *)
(* else it fails with "The {name} must be an array, but it was {a/an       *)
(* tag}." and touches nothing; then it checks the items in the order of    *)
(* their indexes under the name "{name}.{index}", puts the result of each  *)
(* accepted item in its place, and ends at the first rejected item with    *)
(* the message of that item; when no item is rejected it returns the array *)
(* it was given.                                                           *)
(***************************************************************************)
CalledEnsureItemType == Called /\ call.op = "ensureItemType"
ItemsBefore == before[call.value.a].items
\* The check of the i-th item alone, as the caller passed it in
ItemResult(i) ==
  checkType(before, ItemsBefore[i], call.type, call.name \o <<".">> \o NatToString(i - 1))
\* The first item that is not accepted, or the length of the array plus one
FirstRejected ==
  LET rejected == {i \in 1..Len(ItemsBefore) : ItemResult(i).st # "value"}
  IN IF rejected = {} THEN Len(ItemsBefore) + 1
     ELSE CHOOSE i \in rejected : \A j \in rejected : i <= j
\* read 0, write 0, read 1, write 1, ...: the first n events on the array
ItemEventsInOrder(n) ==
  [e \in 1..n |->
     IF e % 2 = 1 THEN ReadEvent(call.value, NatToString((e + 1) \div 2 - 1))
     ELSE WriteEvent(call.value, NatToString(e \div 2 - 1))]

C13_ItemsInOrder ==
  CalledEnsureItemType =>
    IF TagOf(before, call.value) # TArray
    THEN /\ Failed
         /\ outcome.message =
              MustBeMessage(call.name, <<"a","n"," ","a","r","r","a","y">>,
                            Phrase(TagOf(before, call.value)))
         /\ log = <<>>
         /\ heap = before
    ELSE /\ \A i \in 1..Len(ItemsBefore) :
              heap[call.value.a].items[i] =
                IF i < FirstRejected THEN ItemResult(i).value ELSE ItemsBefore[i]
         /\ Len(heap[call.value.a].items) = Len(ItemsBefore)
         /\ IF FirstRejected > Len(ItemsBefore)
            THEN /\ Returned /\ outcome.value = call.value
                 /\ SelectSeq(log, LAMBDA e : e.ev # "new")
                      = ItemEventsInOrder(2 * Len(ItemsBefore))
            ELSE /\ Failed
                 /\ outcome.message = ItemResult(FirstRejected).error
                 /\ SelectSeq(log, LAMBDA e : e.ev # "new")
                      = ItemEventsInOrder(2 * FirstRejected - 1)

\* the first item has become a Date, the second item is rejected under its name
C13_Witness ==
  /\ CalledEnsureItemType /\ Failed
  /\ call.type = TDate
  /\ TagOf(before, call.value) = TArray
  /\ ItemsBefore = <<Str(DateString), Str(<<"x">>)>>
  /\ heap[call.value.a].items = <<DateV(24 * 60 * 60 * 1000), Str(<<"x">>)>>
  /\ startsWith(outcome.message, <<"T","h","e"," ">> \o call.name \o <<".","1"," ">>)

(***************************************************************************)
(* C14  Whenever there are more arguments than types, ensureArguments      *)
(* fails with "Too many arguments: expected {N}, but got {M}.", N the      *)
(* number of types and M the number of arguments, whether the arguments    *)
(* match or not, and before any argument is checked.                       *)
(***************************************************************************)
CalledEnsureArguments == Called /\ call.op = "ensureArguments"
ArgsBefore == before[call.value.a].items
ExpectedTypes == call.type.types

PositionName(i) ==
  IF i <= Len(call.name) /\ call.name[i] # <<>> THEN call.name[i]
  ELSE <<"a","r","g","u","m","e","n","t"," ","#">> \o NatToString(i)
\* The check of the i-th position alone
PositionResult(i) ==
  checkType(before, IF i <= Len(ArgsBefore) THEN ArgsBefore[i] ELSE Undefined,
            ExpectedTypes[i], PositionName(i))
RejectedPositions == {i \in 1..Len(ExpectedTypes) : PositionResult(i).st # "value"}

CalledEnsureNonEmpty == Called /\ call.op = "ensureNonEmpty"
IsEmpty(h, v) ==
  \/ v.k = "string" /\ v.s = <<>>
  \/ v.k = "ref" /\ h[v.a].kind = "array" /\ h[v.a].items = <<>>
  \/ TagOf(h, v) = TObject /\ ObjectKeys(h, v) = <<>>
MustNotBeEmptyMessage(name, json) ==
  <<"T","h","e"," ">> \o name
    \o <<" ","m","u","s","t"," ","n","o","t"," ","b","e"," ","e","m","p","t","y",","," ",
         "b","u","t"," ","i","t"," ","w","a","s"," ">> \o json \o <<".">>

C16_NonEmpty ==
  CalledEnsureNonEmpty =>
    /\ heap = before
    /\ IF IsEmpty(before, call.value)
       THEN /\ Failed
            /\ \E json \in {<<"\"","\"">>, <<"[","]">>, <<"{","}">>} :
                 outcome.message = MustNotBeEmptyMessage(call.name, json)
       ELSE Returned /\ outcome.value = call.value

(***************************************************************************)
(* C17  The description of an array of types joins the descriptions of the *)
(* types with " or " when there are one or two of them, and with ", "      *)
(* and ", or " before the last when there are three or more; the           *)
(* descriptions are in the order of the types.                             *)
(***************************************************************************)
CalledDescribe == Called /\ call.op = "describe"
DescribedList == call.type.types
DescriptionOf(i) == describe(DescribedList[i], call.value.b).s
ExpectedList ==
  LET n == Len(DescribedList) IN
  CASE n = 0 -> <<>>
    [] n = 1 -> DescriptionOf(1)
    [] n = 2 -> DescriptionOf(1) \o <<" ","o","r"," ">> \o DescriptionOf(2)
    [] OTHER ->
         Flatten([i \in 1..(n - 1) |-> DescriptionOf(i) \o <<","," ">>])
           \o <<"o","r"," ">> \o DescriptionOf(n)

C17_ListJoining ==
  (CalledDescribe /\ call.type.d = "union") =>
    Returned /\ outcome.value = Str(ExpectedList)

\* "a string, a number, or undefined"
C17_Witness ==
  /\ CalledDescribe /\ Returned
  /\ call.type = Union(<<TString, TNumber, TUndefined>>)
  /\ call.value = Bool(TRUE)
  /\ outcome.value =
       Str(<<"a"," ","s","t","r","i","n","g",","," ","a"," ","n","u","m","b","e","r",","," ",
             "o","r"," ","u","n","d","e","f","i","n","e","d">>)

(***************************************************************************)
(* C18  With articles, describe puts "an" before a noun whose first letter *)
(* is one of a, e, i, o, u in either case and "a" before any other noun,   *)
(* for the built-in nouns and for the names of constructors and enums,     *)
(* which are used as they are; null, undefined and NaN get no article.     *)
(***************************************************************************)
Noun(type) ==
  CASE type = TNull -> <<"n","u","l","l">>
    [] type = TUndefined -> <<"u","n","d","e","f","i","n","e","d">>
    [] type = TNaN -> <<"N","a","N">>
    [] type = TArray -> <<"a","r","r","a","y">>
    [] type = TBoolean -> <<"b","o","o","l","e","a","n">>
    [] type = TNumber -> <<"n","u","m","b","e","r">>
    [] type = TBigInt -> <<"b","i","g","i","n","t">>
    [] type = TString -> <<"s","t","r","i","n","g">>
    [] type = TSymbol -> <<"s","y","m","b","o","l">>
    [] type = TFunction -> <<"f","u","n","c","t","i","o","n">>
    [] type = TObject -> <<"o","b","j","e","c","t">>
    [] type.d = "class" -> type.name

C18_Articles ==
  (CalledDescribe /\ call.type.d # "union") =>
    LET noun == Noun(call.type) IN
    /\ Returned
    /\ outcome.value =
         Str(IF ~call.value.b \/ call.type \in {TNull, TUndefined, TNaN} THEN noun
             ELSE IF noun[1] \in {"a","e","i","o","u","A","E","I","O","U"}
             THEN <<"a","n"," ">> \o noun
             ELSE <<"a"," ">> \o noun)

\* "an OutputTracker"
C18_Witness ==
  /\ CalledDescribe /\ Returned
  /\ call.type = TOutputTracker
  /\ call.value = Bool(TRUE)
  /\ outcome.value =
       Str(<<"a","n"," ","O","u","t","p","u","t","T","r","a","c","k","e","r">>)

(***************************************************************************)
(* C19  A type that is none of the built-in types, an enum, a constructor, *)
(* an array of types or an object of types, such as a string, a number or  *)
(* a boolean, is neither accepted nor reported as a ValidationError:       *)
(* ensureType ends with the Error "Unreachable code executed." for every   *)
(* value.                                                                  *)
(***************************************************************************)
C19_UnreachableType ==
  (CalledEnsureType /\ call.type \in LiteralTypes) =>
    /\ outcome.kind = "Error"
    /\ outcome.message =
         <<"U","n","r","e","a","c","h","a","b","l","e"," ","c","o","d","e"," ",
           "e","x","e","c","u","t","e","d",".">>
    /\ heap = before

\* ensureType('x', 'abc')
C19_Witness ==
  /\ CalledEnsureType
  /\ call.type = Literal(Str(<<"a","b","c">>))
  /\ call.value = Str(<<"x">>)
  /\ outcome.kind = "Error"

(***************************************************************************)
(* C20  Every failure of ensureType, ensureItemType and ensureArguments    *)
(* for a type of the grammar (built-in, enum, constructor, array of types, *)
(* object of types, in any nesting) and any value is a ValidationError     *)
(* with a message "The {name} must be ..., but it was ..."; no other       *)
(* exception leaves the call.                                              *)
(***************************************************************************)
ContainsText(s, text) ==
  \E i \in 1..(Len(s) - Len(text) + 1) : SubSeq(s, i, i + Len(text) - 1) = text
\* A call with a type of the grammar, and with no more arguments than types
CalledWithinGrammar ==
  /\ Called
  /\ call.op \in {"ensureType", "ensureItemType", "ensureArguments"}
  /\ call.type \notin LiteralTypes
  /\ call.op = "ensureArguments" => Len(ArgsBefore) <= Len(ExpectedTypes)

C20_OnlyValidationErrors ==
  (CalledWithinGrammar /\ ~Returned) =>
    /\ Failed
    /\ startsWith(outcome.message, <<"T","h","e"," ">>)
    /\ ContainsText(outcome.message, <<" ","m","u","s","t"," ","b","e"," ">>)
    /\ ContainsText(outcome.message, <<","," ","b","u","t"," ","i","t"," ","w","a","s"," ">>)
    /\ endsWith(outcome.message, <<".">>)

(***************************************************************************)
(* C26  checkType takes the first rule that matches, in the order          *)
(* primitive, enumeration, constructor, union, struct: a built-in type is  *)
(* compared by tag and nothing is constructed; an enum class is resolved   *)
(* by the lookup of a constant and never constructed; an array of types is *)
(* a union, whose fields "0", "1", ... are never read from the value as    *)
(* those of a struct would be.                                             *)
(***************************************************************************)
EventsOf(kind) == SelectSeq(log, LAMBDA e : e.ev = kind)
MemberKeys(type) ==
  UNION {IF type.types[i].d = "struct"
         THEN {type.types[i].fields[j].key : j \in 1..Len(type.types[i].fields)}
         ELSE {} : i \in 1..Len(type.types)}

C26_Priority ==
  CalledEnsureType =>
    /\ call.type \in BuiltInTypes =>
         /\ log = <<>> /\ heap = before
         /\ Returned <=> StrictEquals(getType(before, call.value), call.type)
         /\ Returned => outcome.value = call.value
         /\ Returned \/ Failed
    /\ call.type \in {YesNo, Size} =>
         /\ log = <<>> /\ heap = before
         /\ Returned =>
              \E i \in 1..Len(call.type.constants) : outcome.value = call.type.constants[i]
    /\ call.type \in {TDate, TColor} =>
         /\ EventsOf("read") = <<>> /\ EventsOf("write") = <<>>
         /\ log # <<>> => log = <<NewEvent(call.type)>>
    /\ call.type.d = "union" =>
         /\ Returned => outcome.value = call.value
         /\ \A i \in 1..Len(log) :
              (log[i].ev \in {"read", "write"} /\ log[i].of = call.value)
                => log[i].key \in MemberKeys(call.type)
    /\ call.type.d = "struct" =>
         /\ EventsOf("read") = <<>> <=>
              (getType(before, call.value) # TObject \/ call.type.fields = <<>>)
         /\ Returned => outcome.value = call.value

\* 'no' is resolved to the constant NO of the enum class YesNo: the class is
\* a function, and no instance of it is constructed
C26_Witness ==
  /\ CalledEnsureType /\ call.type = YesNo /\ TypeofType(call.type) = "function"
  /\ call.value = Str(<<"n","o">>)
  /\ Returned /\ outcome.value = NO /\ log = <<>>

(***************************************************************************)
(* C27  A check against a primitive, enum, constructor or union type       *)
(* leaves the value passed in as it was, whether it succeeds or fails, and *)
(* a coerced result is a new value; the only change a check makes is to    *)
(* the fields of an object that is checked against a struct, directly or   *)
(* as a member of a union.                                                 *)
(***************************************************************************)
RECURSIVE NoStruct(_)
NoStruct(type) ==
  CASE type.d = "struct" -> FALSE
    [] type.d = "union" -> \A i \in 1..Len(type.types) : NoStruct(type.types[i])
    [] OTHER -> TRUE

ChangedCells == {a \in 1..Len(before) : heap[a] # before[a]}
KeysOfCell(cell) == {cell.props[i].key : i \in 1..Len(cell.props)}
ChangedKeys(a) ==
  {key \in KeysOfCell(before[a]) \cup KeysOfCell(heap[a]) :
     \/ HasKey(before[a], key) # HasKey(heap[a], key)
     \/ GetProp(before[a], key) # GetProp(heap[a], key)}
Written(a, key) == \E i \in 1..Len(log) : log[i] = WriteEvent(Ref(a), key)

C27_OnlyStructsWrite ==
  CalledEnsureType =>
    /\ Len(heap) = Len(before)
    /\ NoStruct(call.type) => (heap = before /\ EventsOf("write") = <<>>)
    /\ \A a \in ChangedCells :
         /\ before[a].kind = "object" /\ heap[a].kind = "object"
         /\ \A key \in ChangedKeys(a) : Written(a, key)
    /\ (call.type \in {YesNo, Size, TDate, TColor} /\ Returned
        /\ outcome.value # call.value) => outcome.value.k \in {"enum", "Date", "Color"}

\* a union with a struct among its members rewrites a field of the object
C27_Witness ==
  /\ CalledEnsureType /\ call.type.d = "union" /\ ~NoStruct(call.type)
  /\ call.value.k = "ref"
  /\ ChangedCells # {}
  /\ \E key \in ChangedKeys(call.value.a) : Written(call.value.a, key)

(***************************************************************************)
(* Store                                                                   *)
(*                                                                         *)
(* A store with the reducer of the tests.  A state is an object: id is its *)
(* identity, user its content.  The listeners are functions of the caller; *)
(* while one of them runs it may subscribe and unsubscribe listeners.      *)
(***************************************************************************)
Listeners == {"l1", "l2"}
Users == {"Alice", "Bob"}
Actions ==
  {[type |-> "unknown-action", name |-> "Bob"]}
    \cup {[type |-> "user-changed", name |-> u] : u \in Users}

\* reducer(state, action): { ...state, user: action.name } is a new object
reducer(state, action, newId) ==
  IF action.type = "user-changed" THEN [id |-> newId, user |-> action.name]
  ELSE state

\* The states compared by their content
StateChangedInContent(oldState, newState) == oldState.user # newState.user

\* oldState !== this.#state
StateChanged(oldState, newState) == oldState.id # newState.id

\* Every listener taken for a subscribed one
IsSubscribedAlways(listeners, listener) == TRUE

\* this.#listeners.includes(listener)
IsSubscribed(listeners, listener) ==
  \E i \in 1..Len(listeners) : listeners[i] = listener

\* this.#listeners.filter((l) => l !== listener)
WithoutListener(listeners, listener) ==
  SelectSeq(listeners, LAMBDA l : l # listener)

\* No listener is being notified, and none is running
StoreIdle == ~emit.inListener /\ emit.i > Len(emit.items)

\* createStore(reducer, { user: 'Alice' })
StoreInit ==
  /\ store = [state |-> [id |-> 0, user |-> "Alice"], listeners |-> <<>>]
  /\ emit = [items |-> <<>>, i |-> 1, inListener |-> FALSE]
  /\ told = [dispatches |-> 0, prev |-> [id |-> 0, user |-> "Alice"],
             action |-> [type |-> "none", name |-> "Alice"],
             snapshot |-> <<>>, notified |-> <<>>, cancelled |-> {},
             cancelledInRound |-> {}]
  /\ NoValidation
  /\ NoCollaborators

\* store.subscribe(listener), by the caller or by a listener that is running
Subscribe(listener) ==
  /\ StoreIdle \/ emit.inListener
  /\ Len(store.listeners) < MaxSubscriptions
  /\ store' = [store EXCEPT !.listeners = Append(@, listener)]
  /\ told' = [told EXCEPT !.cancelled = @ \ {listener}]
  /\ UNCHANGED <<emit, notStoreVars>>

\* The function that subscribe(listener) returned is called, by the caller or
\* by a listener that is running
Unsubscribe(listener) ==
  /\ StoreIdle \/ emit.inListener
  /\ IsSubscribed(store.listeners, listener)
  /\ store' = [store EXCEPT !.listeners = WithoutListener(@, listener)]
  /\ told' = [told EXCEPT !.cancelled = @ \cup {listener},
                          !.cancelledInRound =
                            IF StoreIdle THEN @ ELSE @ \cup {listener}]
  /\ UNCHANGED <<emit, notStoreVars>>

\* store.dispatch(action), up to the call of the first listener
Dispatch(action) ==
  /\ StoreIdle
  /\ told.dispatches < MaxDispatches
  /\ LET newState == reducer(store.state, action, told.dispatches + 1)
     IN /\ store' = [store EXCEPT !.state = newState]
        /\ emit' = IF StateChanged(store.state, newState)
                   THEN [items |-> store.listeners, i |-> 1, inListener |-> FALSE]
                   ELSE [items |-> <<>>, i |-> 1, inListener |-> FALSE]
        /\ told' = [told EXCEPT !.dispatches = @ + 1, !.prev = store.state,
                                !.action = action, !.snapshot = store.listeners,
                                !.notified = <<>>, !.cancelledInRound = {}]
  /\ UNCHANGED notStoreVars

\* #emitChange: the next listener of the array is called, or passed over when
\* it is not subscribed any more
Notify ==
  /\ ~emit.inListener
  /\ emit.i <= Len(emit.items)
  /\ LET listener == emit.items[emit.i]
     IN IF IsSubscribed(store.listeners, listener)
        THEN /\ emit' = [emit EXCEPT !.i = @ + 1, !.inListener = TRUE]
             /\ told' = [told EXCEPT !.notified = Append(@, listener)]
        ELSE /\ emit' = [emit EXCEPT !.i = @ + 1]
             /\ UNCHANGED told
  /\ UNCHANGED <<store, notStoreVars>>

\* The listener that was called returns
ListenerReturns ==
  /\ emit.inListener
  /\ emit' = [emit EXCEPT !.inListener = FALSE]
  /\ UNCHANGED <<store, told, notStoreVars>>

StoreNext ==
  \/ \E listener \in Listeners : Subscribe(listener)
  \/ \E listener \in Listeners : Unsubscribe(listener)
  \/ \E action \in Actions : Dispatch(action)
  \/ Notify
  \/ ListenerReturns

StoreSpec == StoreInit /\ [][StoreNext]_vars

(***************************************************************************)
(* C21  dispatch(action) replaces the state by reducer(state, action) and  *)
(* then notifies the subscribed listeners, once for each subscription and  *)
(* in the order of the subscriptions, if and only if the new state is not  *)
(* the same object as the state before; when the reducer returns the same  *)
(* object no listener is called and the state is unchanged.                *)
(***************************************************************************)
Dispatched == told.dispatches > 0
\* The object the reducer of the tests returns: a new one for user-changed
SameObject == told.action.type # "user-changed"

C21_DispatchNotifies ==
  Dispatched =>
    /\ store.state = (IF SameObject THEN told.prev
                      ELSE [id |-> told.dispatches, user |-> told.action.name])
    /\ SameObject => told.notified = <<>> /\ StoreIdle
    /\ (~SameObject /\ told.cancelledInRound = {}) =>
         told.notified = SubSeq(told.snapshot, 1, emit.i - 1)
    /\ (~SameObject /\ told.cancelledInRound = {} /\ StoreIdle) =>
         told.notified = told.snapshot

\* a listener subscribed twice and another one are told of a new state with
\* the content of the state before
C21_Witness ==
  /\ Dispatched /\ StoreIdle
  /\ told.action.type = "user-changed"
  /\ told.prev.user = store.state.user
  /\ told.snapshot = <<"l1", "l2", "l1">>
  /\ told.notified = <<"l1", "l2", "l1">>

(***************************************************************************)
(* C22  Once the function returned by subscribe(listener) has been called, *)
(* the listener is not called again, neither by a later dispatch nor by    *)
(* the notification that is in progress, while every listener that is      *)
(* still subscribed is notified.                                           *)
(***************************************************************************)
\* The listener that a step calls, if it calls one
CallsListener(listener) == told'.notified = Append(told.notified, listener)

C22_UnsubscribedNotCalled ==
  /\ [][\A listener \in Listeners :
          CallsListener(listener) => listener \notin told.cancelled]_vars
  /\ []((Dispatched /\ StoreIdle /\ ~SameObject) =>
          \A i \in 1..Len(told.snapshot) :
            told.snapshot[i] \notin told.cancelledInRound =>
              \E j \in 1..Len(told.notified) : told.notified[j] = told.snapshot[i])

\* the first listener has unsubscribed the second one when it was called, the
\* third subscription is notified
C22_Witness ==
  /\ Dispatched /\ StoreIdle
  /\ told.snapshot = <<"l1", "l2", "l1">>
  /\ told.cancelledInRound = {"l2"}
  /\ told.notified = <<"l1", "l1">>

(***************************************************************************)
(* ConfigurableResponses: a list of responses handed out one by one, or a  *)
(* single response handed out on every call.                               *)
(***************************************************************************)
ResponseValues == {Undefined, Num(1), Num(2)}
ResponseNames == {Undefined, Str(<<"f","o","o","b","a","r">>)}

RECURSIVE ListsOf(_, _)
ListsOf(values, n) ==
  IF n = 0 THEN {<<>>}
  ELSE LET shorter == ListsOf(values, n - 1)
       IN shorter \cup {Append(l, v) : l \in {x \in shorter : Len(x) = n - 1}, v \in values}

\* name == null ? '' : ` in ${name}`
DescriptionIn(name) ==
  IF name.k \in {"undefined", "null"} THEN <<>> ELSE <<" ","i","n"," ">> \o name.s

\* new ConfigurableResponses(responses, name); a list is copied
create(isArray, given, name) ==
  [isArray |-> isArray, given |-> given, responses |-> given,
   description |-> DescriptionIn(name)]

NoMoreResponses(description) == <<"N","o"," ","m","o","r","e"," ","r","e","s","p","o","n","s","e","s"," ","c","o","n","f","i","g","u","r","e","d">> \o description \o <<".">>

\* Array.prototype.shift: the first element, undefined for an empty array
Shifted(list) == IF Len(list) = 0 THEN Undefined ELSE Head(list)

\* next(): the response handed out or the error thrown, and the list left
next(cr) ==
  LET response == IF cr.isArray THEN Shifted(cr.responses) ELSE cr.responses
      left == IF cr.isArray /\ Len(cr.responses) > 0 THEN Tail(cr.responses)
              ELSE cr.responses
  IN [result |-> IF response = Undefined
                 THEN [kind |-> "throw", value |-> Undefined,
                       message |-> NoMoreResponses(cr.description)]
                 ELSE [kind |-> "return", value |-> response, message |-> <<>>],
      responses |-> left]

ResponsesInit ==
  /\ \E name \in ResponseNames :
       \/ \E given \in ListsOf(ResponseValues, MaxResponses) :
            responses = [cr |-> create(TRUE, given, name), k |-> 0, result |-> NoOutcome]
       \/ \E given \in ResponseValues :
            responses = [cr |-> create(FALSE, given, name), k |-> 0, result |-> NoOutcome]
  /\ NoValidation /\ NoStore /\ NoTracker /\ NoLogging /\ NoPolling /\ NoTimer

\* One call of next() by the user of the responses
NextResponse ==
  /\ responses.k < MaxNextCalls
  /\ LET r == next(responses.cr)
     IN responses' = [cr |-> [responses.cr EXCEPT !.responses = r.responses],
                      k |-> responses.k + 1, result |-> r.result]
  /\ UNCHANGED <<validationVars, storeVars, tracker, logging, polling, timer>>

ResponsesNext == NextResponse
ResponsesSpec == ResponsesInit /\ [][ResponsesNext]_vars

\* C23: a ConfigurableResponses created from a list of n responses returns
\* the k-th response on the k-th call of next() for k <= n and throws "No
\* more responses configured{ in name}." on every later call; one created
\* from a single value returns that value on every call, and throws on every
\* call when no response was given.
C23_ResponsesInOrder ==
  LET cr == responses.cr
      k == responses.k
      result == responses.result
      thrown == [kind |-> "throw", value |-> Undefined,
                 message |-> NoMoreResponses(cr.description)]
      returned(v) == [kind |-> "return", value |-> v, message |-> <<>>]
  IN k > 0 =>
       IF cr.isArray
       THEN IF k <= Len(cr.given) THEN result = returned(cr.given[k])
            ELSE result = thrown
       ELSE IF cr.given = Undefined THEN result = thrown
            ELSE result = returned(cr.given)

(***************************************************************************)
(* OutputTracker: a listener on an event target that collects the detail   *)
(* of the events of one type.                                              *)
(***************************************************************************)
EventTypes == {"foo", "other"}
Details == {"bar", "baz"}
TrackedEvent == "foo"

\* EventTarget.addEventListener / removeEventListener for the tracker's
\* callback: the event types it is registered for
addEventListener(registered, type) == registered \cup {type}
removeEventListenerNever(registered, type) == registered
removeEventListener(registered, type) == registered \ {type}

\* OutputTracker.create(eventTarget, 'foo')
TrackerInit ==
  /\ tracker = [registered |-> addEventListener({}, TrackedEvent), data |-> <<>>,
                cleared |-> <<>>, history |-> <<>>]
  /\ NoValidation /\ NoStore /\ NoResponses /\ NoLogging /\ NoPolling /\ NoTimer

notTrackerVars == <<validationVars, storeVars, responses, logging, polling, timer>>

\* eventTarget.dispatchEvent(new CustomEvent(type, { detail }))
DispatchEvent(type, detail) ==
  /\ Len(tracker.history) < MaxEvents
  /\ tracker' = [tracker EXCEPT
                   !.data = IF type \in tracker.registered
                            THEN Append(tracker.data, detail) ELSE @,
                   !.history = Append(@, [op |-> "dispatch", type |-> type,
                                           detail |-> detail])]
  /\ UNCHANGED notTrackerVars

\* outputTracker.clear()
Clear ==
  /\ Len(tracker.history) < MaxEvents
  /\ tracker' = [tracker EXCEPT
                   !.cleared = tracker.data,
                   !.data = <<>>,
                   !.history = Append(@, [op |-> "clear", type |-> TrackedEvent,
                                           detail |-> "bar"])]
  /\ UNCHANGED notTrackerVars

\* outputTracker.stop()
Stop ==
  /\ Len(tracker.history) < MaxEvents
  /\ tracker' = [tracker EXCEPT
                   !.registered = removeEventListener(@, TrackedEvent),
                   !.history = Append(@, [op |-> "stop", type |-> TrackedEvent,
                                           detail |-> "bar"])]
  /\ UNCHANGED notTrackerVars

TrackerNext ==
  \/ \E type \in EventTypes, detail \in Details : DispatchEvent(type, detail)
  \/ Clear
  \/ Stop
TrackerSpec == TrackerInit /\ [][TrackerNext]_vars

\* The details of the tracked events among the first n of the history that
\* came after the last clear() and before the first stop()
TrackedDetails(history, n) ==
  LET clears == {i \in 1..n : history[i].op = "clear"}
      stops == {i \in 1..n : history[i].op = "stop"}
      lastClear == IF clears = {} THEN 0
                   ELSE CHOOSE i \in clears : \A j \in clears : j <= i
      firstStop == IF stops = {} THEN n + 1
                   ELSE CHOOSE i \in stops : \A j \in stops : i <= j
      tracked(e) == e.op = "dispatch" /\ e.type = TrackedEvent
      window == IF firstStop - 1 > lastClear
                THEN SubSeq(history, lastClear + 1, firstStop - 1) ELSE <<>>
      events == SelectSeq(window, tracked)
  IN [i \in 1..Len(events) |-> events[i].detail]

\* C24: data is the details of the tracked events dispatched after the
\* creation or the last clear() and before stop(), in dispatch order; clear()
\* returns that sequence and leaves data empty; nothing is recorded after
\* stop().
C24_TrackedData ==
  LET history == tracker.history
      n == Len(history)
  IN /\ tracker.data = TrackedDetails(history, n)
     /\ (n > 0 /\ history[n].op = "clear") =>
          /\ tracker.cleared = TrackedDetails(history, n - 1)
          /\ tracker.data = <<>>

\* An event is recorded, tracking is stopped, an event is dispatched, and
\* clear() returns the one event.
C24_Witness ==
  /\ Len(tracker.history) = 4
  /\ tracker.history[1] = [op |-> "dispatch", type |-> "foo", detail |-> "bar"]
  /\ tracker.history[2].op = "stop"
  /\ tracker.history[3] = [op |-> "dispatch", type |-> "foo", detail |-> "baz"]
  /\ tracker.history[4].op = "clear"
  /\ tracker.cleared = <<"bar">>
  /\ tracker.data = <<>>

(***************************************************************************)
(* Logging: Level, Logger and LogManager.  A logger has an optional own    *)
(* level, a parent and handlers; log() asks isLoggable() and, when the     *)
(* answer is yes, publishes one record to its handlers and to those of its *)
(* ancestors and dispatches the message-logged event.                      *)
(***************************************************************************)
\* Number.MAX_SAFE_INTEGER and Number.MIN_SAFE_INTEGER are beyond every
\* other level value: safe is 1 and -1 for them, and 0 for the number n.
MaxSafeInteger == [safe |-> 1, n |-> 0]
MinSafeInteger == [safe |-> -1, n |-> 0]
LevelValue(n) == [safe |-> 0, n |-> n]

\* new Level(name, value)
Level(name, value) == [k |-> "level", name |-> name, value |-> value]
OFF == Level("OFF", MaxSafeInteger)
ERROR == Level("ERROR", LevelValue(1000))
WARNING == Level("WARNING", LevelValue(900))
INFO == Level("INFO", LevelValue(800))
DEBUG == Level("DEBUG", LevelValue(700))
TRACE == Level("TRACE", LevelValue(600))
ALL == Level("ALL", MinSafeInteger)
Levels == {OFF, ERROR, WARNING, INFO, DEBUG, TRACE, ALL}

\* level >= this.level: both operands are converted by Level.valueOf
GreaterThanLevel(level, other) ==
  IF level.value.safe # other.value.safe THEN level.value.safe > other.value.safe
  ELSE level.value.safe = 0 /\ level.value.n > other.value.n
GreaterOrEqualLevel(level, other) ==
  IF level.value.safe # other.value.safe THEN level.value.safe > other.value.safe
  ELSE level.value.safe # 0 \/ level.value.n >= other.value.n

RootLogger == ""
LoggerNames == {"test-logger"}
HandlerNames == {"h1"}
NoParent == "none"

\* Logger.isLoggable: "yes", "no", or "TypeError" when a logger without level
\* has no parent (this.parent.isLoggable of undefined)
RECURSIVE isLoggable(_, _, _)
isLoggable(loggers, name, level) ==
  IF loggers[name].level # Undefined
  THEN IF GreaterOrEqualLevel(level, loggers[name].level) THEN "yes" ELSE "no"
  ELSE IF loggers[name].parent = NoParent THEN "TypeError"
  ELSE isLoggable(loggers, loggers[name].parent, level)

\* The handlers a record is published to, in order: those of the logger,
\* then those of its parent, and so on
RECURSIVE HandlersUpwards(_, _)
HandlersUpwards(loggers, name) ==
  loggers[name].handlers \o
    (IF loggers[name].parent = NoParent THEN <<>>
     ELSE HandlersUpwards(loggers, loggers[name].parent))

NoRecord == [outcome |-> "none", logger |-> RootLogger, level |-> INFO,
             published |-> <<>>, tracked |-> FALSE]

\* new LogManager(): the root logger with level INFO and a console handler
LoggingInit ==
  /\ logging = [loggers |-> [n \in {RootLogger} |->
                               [level |-> INFO, parent |-> NoParent,
                                handlers |-> <<"console">>]],
                rootLevelSet |-> FALSE,
                last |-> NoRecord]
  /\ NoValidation /\ NoStore /\ NoResponses /\ NoTracker /\ NoPolling /\ NoTimer

notLoggingVars == <<validationVars, storeVars, responses, tracker, polling, timer>>

\* Logger.getLogger(name) for a name that is not known yet
GetLogger(name) ==
  /\ name \notin DOMAIN logging.loggers
  /\ logging' = [logging EXCEPT
                   !.loggers = @ @@ (name :> [level |-> Undefined, parent |-> RootLogger,
                                              handlers |-> <<>>]),
                   !.last = NoRecord]
  /\ UNCHANGED notLoggingVars

\* logger.level = level, or logger.level = undefined
SetLevel(name, level) ==
  /\ name \in DOMAIN logging.loggers
  /\ logging.loggers[name].level # level
  /\ logging' = [logging EXCEPT
                   !.loggers[name].level = level,
                   !.rootLevelSet = @ \/ name = RootLogger,
                   !.last = NoRecord]
  /\ UNCHANGED notLoggingVars

\* logger.addHandler(handler)
AddHandler(name, handler) ==
  /\ name \in DOMAIN logging.loggers
  /\ name # RootLogger
  /\ Len(logging.loggers[name].handlers) = 0
  /\ logging' = [logging EXCEPT
                   !.loggers[name].handlers = Append(@, handler),
                   !.last = NoRecord]
  /\ UNCHANGED notLoggingVars

\* logger.removeHandler(handler)
RemoveHandler(name, handler) ==
  /\ name \in DOMAIN logging.loggers
  /\ \E i \in 1..Len(logging.loggers[name].handlers) :
       logging.loggers[name].handlers[i] = handler
  /\ logging' = [logging EXCEPT
                   !.loggers[name].handlers = SelectSeq(@, LAMBDA h : h # handler),
                   !.last = NoRecord]
  /\ UNCHANGED notLoggingVars

\* logger.log(level, ...message)
Log(name, level) ==
  /\ name \in DOMAIN logging.loggers
  /\ LET loggable == isLoggable(logging.loggers, name, level)
     IN logging' = [logging EXCEPT !.last =
          IF loggable = "yes"
          THEN [outcome |-> "logged", logger |-> name, level |-> level,
                published |-> HandlersUpwards(logging.loggers, name),
                tracked |-> TRUE]
          ELSE [outcome |-> IF loggable = "no" THEN "dropped" ELSE "TypeError",
                logger |-> name, level |-> level, published |-> <<>>,
                tracked |-> FALSE]]
  /\ UNCHANGED notLoggingVars

LoggingNext ==
  \/ \E name \in LoggerNames : GetLogger(name)
  \/ \E name \in LoggerNames \cup {RootLogger}, level \in Levels \cup {Undefined} :
       SetLevel(name, level)
  \/ \E name \in LoggerNames, handler \in HandlerNames : AddHandler(name, handler)
  \/ \E name \in LoggerNames \cup {RootLogger}, handler \in HandlerNames \cup {"console"} :
       RemoveHandler(name, handler)
  \/ \E name \in LoggerNames \cup {RootLogger}, level \in Levels : Log(name, level)
LoggingSpec == LoggingInit /\ [][LoggingNext]_vars

\* The effective level of a logger: its own level when one is set, otherwise
\* the effective level of its parent; undefined when there is neither
RECURSIVE EffectiveLevel(_, _)
EffectiveLevel(loggers, name) ==
  IF loggers[name].level # Undefined THEN loggers[name].level
  ELSE IF loggers[name].parent = NoParent THEN Undefined
  ELSE EffectiveLevel(loggers, loggers[name].parent)

Logged == logging.last.outcome # "none"

\* C25: log(level, ...) emits a record, to the handlers of the logger and of
\* its ancestors and to the trackers, if and only if the value of the level
\* is greater than or equal to that of the effective level of the logger; a
\* message below it produces no record at all.  A named logger without own
\* level uses the level of the root logger, which is INFO by default.
C25_EffectiveLevel ==
  LET last == logging.last
      loggers == logging.loggers
      effective == EffectiveLevel(loggers, last.logger)
  IN /\ (Logged /\ effective # Undefined) =>
          IF effective.value.safe = last.level.value.safe
          THEN /\ effective.value.safe = 0 /\ last.level.value.n < effective.value.n
                  => last.outcome = "dropped"
               /\ effective.value.safe # 0 \/ last.level.value.n >= effective.value.n
                  => last.outcome = "logged"
          ELSE IF last.level.value.safe > effective.value.safe
               THEN last.outcome = "logged" ELSE last.outcome = "dropped"
     /\ (Logged /\ last.outcome = "logged") =>
          /\ last.tracked
          /\ last.published =
               loggers[last.logger].handlers \o
                 (IF last.logger = RootLogger THEN <<>> ELSE loggers[RootLogger].handlers)
     /\ (Logged /\ last.outcome # "logged") =>
          ~last.tracked /\ last.published = <<>>
     /\ \A name \in DOMAIN loggers \ {RootLogger} :
          loggers[name].level = Undefined =>
            EffectiveLevel(loggers, name) = loggers[RootLogger].level
     /\ ~logging.rootLevelSet => loggers[RootLogger].level = INFO

\* A named logger without own level logs a DEBUG message because the root
\* logger has the level DEBUG; the record goes to its handler and the root's.
C25_Witness ==
  /\ "test-logger" \in DOMAIN logging.loggers
  /\ logging.loggers["test-logger"].level = Undefined
  /\ logging.loggers[RootLogger].level = DEBUG
  /\ logging.last = [outcome |-> "logged", logger |-> "test-logger", level |-> DEBUG,
                      published |-> <<"h1", "console">>, tracked |-> TRUE]

(***************************************************************************)
(* LongPolling (src/lib/node/long-polling.js).  The application changes    *)
(* its data and calls send(); clients call poll() with the tag they hold.  *)
(* #getResponse is asynchronous: getData reads the data at some moment,    *)
(* and the code after the await reads #version when it is resumed.  The    *)
(* data is numbered by its changes, so that the data after the n-th send() *)
(* is n.                                                                   *)
(***************************************************************************)
Polls == {"p1", "p2"}
NoTag == -1
NoWait == -1
Waits == {NoWait, 1}

NoResponse == [status |-> 0, etag |-> NoTag, body |-> -1]
NotModified == [status |-> 304, etag |-> NoTag, body |-> -1]
\* #getResponse after the await: the ETag is the version at that moment
getResponse(version, body) == [status |-> 200, etag |-> version, body |-> body]

\* #isCurrentVersion(request)
isCurrentVersion(version, tag) == tag # NoTag /\ tag = version

\* this.#waiting.includes(resolve), and the test left out
includesAlways(waiting, poll) == TRUE
includesResolve(waiting, poll) == \E i \in 1..Len(waiting) : waiting[i] = poll

IdlePoll == [st |-> "idle", tag |-> NoTag, timer |-> "none",
             answers |-> 0, response |-> NoResponse, by |-> "none",
             body |-> -1, sendsDone |-> 0]

\* new LongPolling(getData)
PollingInit ==
  /\ polling = [version |-> 0, data |-> 0, waiting |-> <<>>,
                polls |-> [p \in Polls |-> IdlePoll],
                sends |-> <<>>, sendsDone |-> 0, issued |-> {}, requests |-> 0]
  /\ NoValidation /\ NoStore /\ NoResponses /\ NoTracker /\ NoLogging /\ NoTimer

notPollingVars == <<validationVars, storeVars, responses, tracker, logging, timer>>

\* handler.reply(response, responseData) of poll p
Reply(poll, response, by) ==
  [poll EXCEPT !.st = "answered", !.answers = @ + 1, !.response = response,
               !.by = by]

\* poll(request, response) with If-None-Match: "tag" and Prefer: wait=N, up to
\* the first await that has to wait for something; p is a request that has
\* not been made yet or one that is over, its timer included
Poll(p, tag, wait) ==
  /\ polling.polls[p].st \in {"idle", "answered"}
  /\ polling.polls[p].timer # "pending"
  /\ polling.requests < MaxRequests
  /\ polling' =
       IF isCurrentVersion(polling.version, tag)
       THEN IF wait = NoWait
            THEN [polling EXCEPT
                    !.requests = @ + 1,
                    !.polls[p] = Reply([IdlePoll EXCEPT !.tag = tag], NotModified, "poll")]
            ELSE [polling EXCEPT
                    !.requests = @ + 1,
                    !.waiting = Append(@, p),
                    !.polls[p] = [IdlePoll EXCEPT !.st = "waiting", !.tag = tag,
                                                  !.timer = "pending",
                                                  !.sendsDone = polling.sendsDone]]
       ELSE [polling EXCEPT
               !.requests = @ + 1,
               !.polls[p] = [IdlePoll EXCEPT !.st = "fetching", !.tag = tag]]
  /\ UNCHANGED notPollingVars

\* getData() of a poll reads the data
PollGetData(p) ==
  /\ polling.polls[p].st = "fetching"
  /\ polling' = [polling EXCEPT !.polls[p] = [@ EXCEPT !.st = "read",
                                                      !.body = polling.data]]
  /\ UNCHANGED notPollingVars

\* poll() is resumed after await this.#getResponse()
PollReplies(p) ==
  /\ polling.polls[p].st = "read"
  /\ LET response == getResponse(polling.version, polling.polls[p].body)
     IN polling' = [polling EXCEPT
                      !.polls[p] = Reply(@, response, "poll"),
                      !.issued = @ \cup {response.etag}]
  /\ UNCHANGED notPollingVars

\* The application changes its data and calls send(): this.#version++ and the
\* call of getData
Send ==
  /\ Len(polling.sends) < MaxSends
  /\ polling' = [polling EXCEPT
                   !.data = @ + 1,
                   !.version = @ + 1,
                   !.sends = Append(@, [st |-> "called", body |-> -1])]
  /\ UNCHANGED notPollingVars

\* getData() of a send reads the data
SendGetData(i) ==
  /\ i \in 1..Len(polling.sends)
  /\ polling.sends[i].st = "called"
  /\ polling' = [polling EXCEPT !.sends[i] = [st |-> "read", body |-> polling.data]]
  /\ UNCHANGED notPollingVars

\* send() is resumed after await this.#getResponse(): every waiting resolver
\* is called with the response, and the list is emptied
SendResolves(i) ==
  /\ i \in 1..Len(polling.sends)
  /\ polling.sends[i].st = "read"
  /\ LET response == getResponse(polling.version, polling.sends[i].body)
     IN polling' = [polling EXCEPT
                      !.sends[i].st = "done",
                      !.sendsDone = @ + 1,
                      !.polls = [p \in Polls |->
                                   IF includesResolve(polling.waiting, p)
                                   THEN Reply(polling.polls[p], response, "send")
                                   ELSE polling.polls[p]],
                      !.issued = IF polling.waiting = <<>> THEN @
                                 ELSE @ \cup {response.etag},
                      !.waiting = <<>>]
  /\ UNCHANGED notPollingVars

\* The callback of setTimeout(..., time * 1000) of poll p: it runs when the
\* time of the poll has passed
Timeout(p) ==
  /\ polling.polls[p].timer = "pending"
  /\ polling' =
       IF includesResolve(polling.waiting, p)
       THEN [polling EXCEPT
               !.waiting = SelectSeq(@, LAMBDA r : r # p),
               !.polls[p] = Reply([@ EXCEPT !.timer = "fired"], NotModified, "timeout")]
       ELSE [polling EXCEPT !.polls[p].timer = "fired"]
  /\ UNCHANGED notPollingVars

PollingNext ==
  \/ \E p \in Polls, tag \in polling.issued \cup {NoTag}, wait \in Waits : Poll(p, tag, wait)
  \/ \E p \in Polls : PollGetData(p)
  \/ \E p \in Polls : PollReplies(p)
  \/ Send
  \/ \E i \in 1..MaxSends : SendGetData(i)
  \/ \E i \in 1..MaxSends : SendResolves(i)
  \/ \E p \in Polls : Timeout(p)
PollingSpec == PollingInit /\ [][PollingNext]_vars

\* C28: a poll that presents the current version with Prefer: wait=N is
\* answered exactly once, by the next send() that completes before N seconds
\* have passed, and otherwise with status 304 when its timeout fires: no poll
\* is answered twice, none is unanswered after its timeout, and the waiting
\* list holds no resolver that has been answered.  The N seconds have passed
\* when the callback of the timer runs.
InWaiting(p) == \E i \in 1..Len(polling.waiting) : polling.waiting[i] = p

C28_AnsweredOnce ==
  \A p \in Polls :
    LET poll == polling.polls[p] IN
    /\ poll.answers <= 1
    /\ InWaiting(p) <=> poll.st = "waiting"
    /\ poll.st = "waiting" =>
         /\ poll.answers = 0
         /\ poll.timer = "pending"
         /\ polling.sendsDone = poll.sendsDone
    /\ poll.timer = "fired" => poll.answers = 1
    /\ poll.by = "send" =>
         /\ poll.response.status = 200
         /\ polling.sendsDone > poll.sendsDone
    /\ poll.by = "timeout" =>
         /\ poll.response = NotModified
         /\ poll.timer = "fired"

\* One poll was answered by a send() and its timer ran later without effect,
\* the other one was answered by its timeout.
C28_Witness ==
  /\ polling.polls["p1"].by = "send" /\ polling.polls["p1"].timer = "fired"
  /\ polling.polls["p1"].answers = 1
  /\ polling.polls["p2"].by = "timeout" /\ polling.polls["p2"].answers = 1
  /\ polling.waiting = <<>>

\* C29: the ETag of a data response is the version of the data in its body,
\* under every interleaving of poll() and send() with an asynchronous
\* getData, and a waiting poll is never answered with data that carries the
\* ETag it presented.
C29_ETagIsVersionOfBody ==
  \A p \in Polls :
    LET poll == polling.polls[p] IN
    poll.response.status = 200 =>
      /\ poll.response.etag = poll.response.body
      /\ poll.by = "send" => poll.response.etag # poll.tag

(***************************************************************************)
(* Timer and TimerTask.  The clock is the fixed clock of Timer.createNull, *)
(* read in milliseconds from the moment the timer was created; setTimeout  *)
(* of the TimeoutStub does nothing.                                        *)
(***************************************************************************)
Tasks == {"t1", "t2", "t3"}
Delays == {1000, 2000}
Periods == {1000}
TicksPerCall == 1000

NewTask == [state |-> "created", nextExecutionTime |-> 0, period |-> 0, runs |-> 0]

\* The comparator of #doSchedule: b._nextExecutionTime - a._nextExecutionTime
Compare(tasks, a, b) == tasks[b].nextExecutionTime - tasks[a].nextExecutionTime

\* Array.prototype.sort with the comparator: a stable sort, in which a comes
\* before b when Compare(a, b) is negative
RECURSIVE SortQueue(_, _)
SortQueue(tasks, queue) ==
  IF Len(queue) = 0 THEN <<>>
  ELSE LET first == CHOOSE i \in 1..Len(queue) :
                      /\ \A j \in 1..Len(queue) : Compare(tasks, queue[j], queue[i]) >= 0
                      /\ \A j \in 1..(i - 1) : Compare(tasks, queue[j], queue[i]) > 0
           rest == [j \in 1..(Len(queue) - 1) |-> IF j < first THEN queue[j] ELSE queue[j + 1]]
       IN <<queue[first]>> \o SortQueue(tasks, rest)

\* #runMainLoop(): [tasks, queue] after it
RECURSIVE runMainLoop(_, _, _)
runMainLoop(tasks, queue, now) ==
  IF Len(queue) = 0 THEN [tasks |-> tasks, queue |-> queue]
  ELSE LET task == queue[1]
           executionTime == tasks[task].nextExecutionTime
       IN IF tasks[task].state = "cancelled"
          THEN runMainLoop(tasks, Tail(queue), now)
          ELSE IF executionTime <= now
          THEN IF tasks[task].period = 0
               THEN [tasks |-> [tasks EXCEPT ![task].state = "executed",
                                             ![task].runs = @ + 1],
                     queue |-> Tail(queue)]
               ELSE [tasks |-> [tasks EXCEPT
                                  ![task].nextExecutionTime =
                                     IF tasks[task].period < 0
                                     THEN now - tasks[task].period
                                     ELSE executionTime + tasks[task].period,
                                  ![task].runs = @ + 1],
                     queue |-> queue]
          ELSE [tasks |-> tasks, queue |-> queue]

\* #doSchedule(task, delay, period)
doSchedule(tasks, queue, now, task, delay, period) ==
  LET scheduled == [tasks EXCEPT ![task].nextExecutionTime = now + delay,
                                 ![task].period = period,
                                 ![task].state = "scheduled"]
      sorted == SortQueue(scheduled, Append(queue, task))
  IN IF sorted[1] = task THEN runMainLoop(scheduled, sorted, now)
     ELSE [tasks |-> scheduled, queue |-> sorted]

\* Timer.createNull()
TimerInit ==
  /\ timer = [tasks |-> [t \in Tasks |-> NewTask], queue |-> <<>>, now |-> 0, ticks |-> 0]
  /\ NoValidation /\ NoStore /\ NoResponses /\ NoTracker /\ NoLogging /\ NoPolling

notTimerVars == <<validationVars, storeVars, responses, tracker, logging, polling>>

\* timer.schedule(task, delay, period) with a new task
Schedule(task, delay, period) ==
  /\ timer.tasks[task].state = "created"
  /\ LET r == doSchedule(timer.tasks, timer.queue, timer.now, task, delay, 0 - period)
     IN timer' = [timer EXCEPT !.tasks = r.tasks, !.queue = r.queue]
  /\ UNCHANGED notTimerVars

\* timer.scheduleAtFixedRate(task, delay, period) with a new task
ScheduleAtFixedRate(task, delay, period) ==
  /\ timer.tasks[task].state = "created"
  /\ LET r == doSchedule(timer.tasks, timer.queue, timer.now, task, delay, period)
     IN timer' = [timer EXCEPT !.tasks = r.tasks, !.queue = r.queue]
  /\ UNCHANGED notTimerVars

\* task.cancel()
CancelTask(task) ==
  /\ timer.tasks[task].state = "scheduled"
  /\ timer' = [timer EXCEPT !.tasks[task].state = "cancelled"]
  /\ UNCHANGED notTimerVars

\* timer.cancel()
CancelTimer ==
  /\ timer.queue # <<>>
  /\ timer' = [timer EXCEPT
                 !.tasks = [t \in Tasks |->
                              IF \E i \in 1..Len(timer.queue) : timer.queue[i] = t
                              THEN [timer.tasks[t] EXCEPT !.state = "cancelled"]
                              ELSE timer.tasks[t]],
                 !.queue = <<>>]
  /\ UNCHANGED notTimerVars

\* timer.simulateTaskExecution(): the clock is advanced, the main loop runs
SimulateTaskExecution ==
  /\ timer.ticks < MaxTicks
  /\ LET now == timer.now + TicksPerCall
         r == runMainLoop(timer.tasks, timer.queue, now)
     IN timer' = [tasks |-> r.tasks, queue |-> r.queue, now |-> now,
                  ticks |-> timer.ticks + 1]
  /\ UNCHANGED notTimerVars

TimerNext ==
  \/ \E task \in Tasks, delay \in Delays, period \in Periods \cup {0} :
       Schedule(task, delay, period)
  \/ \E task \in Tasks, delay \in Delays, period \in Periods :
       ScheduleAtFixedRate(task, delay, period)
  \/ \E task \in Tasks : CancelTask(task)
  \/ CancelTimer
  \/ SimulateTaskExecution
TimerSpec == TimerInit /\ [][TimerNext]_vars

\* C30: after any sequence of schedule, scheduleAtFixedRate, cancel and
\* simulateTaskExecution the task at the head of the queue is the scheduled
\* task with the earliest next execution time, so that no task whose time
\* has been reached is held back by a later one; a one-time task is run at
\* most once and is then out of the queue with the state executed.
C30_HeadIsEarliest ==
  LET queue == timer.queue
      tasks == timer.tasks
      InQueue(t) == \E i \in 1..Len(queue) : queue[i] = t
  IN /\ (Len(queue) > 0 /\ tasks[queue[1]].state = "scheduled") =>
          \A t \in Tasks :
            (InQueue(t) /\ tasks[t].state = "scheduled") =>
              tasks[queue[1]].nextExecutionTime <= tasks[t].nextExecutionTime
     /\ \A t \in Tasks :
          tasks[t].period = 0 =>
            /\ tasks[t].runs <= 1
            /\ tasks[t].runs = 1 => (tasks[t].state = "executed" /\ ~InQueue(t))

====
